---- MODULE Spec2Model ----
(***************************************************************************)
(* Verification model of the SPN link/terminal core:                       *)
(*   - the DuplexFlowQueue credit protocol between two terminals,          *)
(*   - the crane's framing of terminal messages over a ship,               *)
(*   - the expand (relay) operation,                                       *)
(*   - the latency test client operation.                                  *)
(* Every subsystem has its own specification over its own variables; the   *)
(* variables of the other subsystems stay at their initial values.         *)
(***************************************************************************)
EXTENDS Integers, Sequences, FiniteSets, TLC

(***************************************************************************)
(* State.  The variables of the DuplexFlowQueue pair, of the crane pair,   *)
(* of the expand operation and of the latency test client operation.       *)
(***************************************************************************)
VARIABLES
    sendQueue,      \* per terminal: messages the operation handed to Send
    recvQueue,      \* per terminal: delivered messages not yet consumed
    sendSpace,      \* per terminal: credit held for sending to the peer
    reportedSpace,  \* per terminal: credit the peer has been granted
    pendingSpaceReport, \* per terminal: freed slots not yet reported
    wire,           \* per terminal: frames submitted upstream, not yet delivered
    countTo,        \* per terminal: how far its counter counts
    counterSent,    \* per terminal: last number handed to Send
    counterRecvd,   \* per terminal: last number consumed from the peer
    counterError    \* an error of the counter op or of a Deliver, or "none"

dfqVars == <<sendQueue, recvQueue, sendSpace, reportedSpace, pendingSpaceReport,
             wire, countTo, counterSent, counterRecvd, counterError>>

VARIABLES
    craneEncrypting, \* whether the cranes were built with an identity
    terminalMsgs,    \* crane1: submitted messages the loader has not taken
    loadBuf,         \* crane1: framed bytes not yet written to the ship
    shipLoads,       \* the ship: loads written by crane1, not yet unloaded
    unloadBuf,       \* crane2: unloaded bytes of a not yet complete frame
    submitted,       \* per terminal ID: contents submitted on crane1, in order
    delivered        \* per terminal ID: contents delivered on crane2, in order

craneVars == <<craneEncrypting, terminalMsgs, loadBuf, shipLoads, unloadBuf,
               submitted, delivered>>

VARIABLES
    publicHub,        \* conf.PublicHub()
    opsAllowed,       \* how many expand requests this run makes
    framesAllowed,    \* how many frames this run sends per direction
    newExpandOp,      \* metric: expand requests seen
    craneLookups,     \* calls of GetAssignedCrane
    nextTerminalID,   \* relay crane: next terminal ID
    craneTerminals,   \* relay crane: IDs of the registered terminals
    activeExpandOps,  \* metric: running forward handlers
    ops               \* per expand request: the op and its relay terminal

expandVars == <<publicHub, opsAllowed, framesAllowed, newExpandOp, craneLookups,
                nextTerminalID, craneTerminals, activeExpandOps, ops>>

VARIABLES
    latPhase,          \* the client op: "new", "failed", "running", "returned"
    latRegistered,     \* the terminal has the op registered
    pingsSent,         \* ping requests created so far
    lastPingNonce,     \* op.lastPingNonce, 0 for nil
    measuredLatencies, \* op.measuredLatencies
    nextTest,          \* the handler's nextTest timer is set
    responsesClosed,   \* op.responses was closed
    delivering,        \* the response a Deliver call is handing over, if any
    deliverPanicked,   \* a Deliver call panicked
    latEndErr,         \* the error given to op.t.OpEnd, or "none"
    testResult,        \* op.testResult, 0 before a report
    hubLatency         \* the connected hub's latency measurement, 0 if unset

latVars == <<latPhase, latRegistered, pingsSent, lastPingNonce, measuredLatencies,
             nextTest, responsesClosed, delivering, deliverPanicked, latEndErr,
             testResult, hubLatency>>

\* Route exploration under a routing profile.
VARIABLES
    rp,                \* the RoutingProfile
    route,             \* the Route that is explored: Path and TotalCost
    foundRoutes,       \* foundRoutes.All, each route by the length of its Path
                       \* and its TotalCost
    compliance,        \* what checkRouteCompliance said of the route
    routeAdded         \* the route was added to the found routes

routingVars == <<rp, route, foundRoutes, compliance, routeAdded>>

\* The navigator's map of hubs.
VARIABLES
    pins,              \* the IDs of m.all: the hubs that have a pin
    pinStatus,         \* per hub, the lanes of pin.Hub.Status to other hubs,
                       \* by peer
    connectedTo,       \* per hub, pin.ConnectedTo by peer
    reachable          \* the hubs whose pin has StateReachable

mapVars == <<pins, pinStatus, connectedTo, reachable>>

\* The import of gossiped hub announcements and statuses.
VARIABLES
    importPublicHub,   \* conf.PublicHub()
    hubDB,             \* the hub as saved to the database, NoHub if none
    prevImport,        \* the call of ImportAndVerifyHubInfo before the last
    lastImport,        \* the last call: its arguments and what it returned
    imports,           \* the calls made
    hubMsgs,           \* the raw announcement and status saved to the database
    lastVerify         \* the ships and cranes of the last call's verification

importVars == <<importPublicHub, hubDB, prevImport, lastImport, imports,
                hubMsgs, lastVerify>>

\* The pins of a map and the deletion of their hubs by updateStates.
VARIABLES
    gcPins,            \* the hubs with a pin on the map
    gcState,           \* of each hub: StateActive, Obsolete(), discontinued
    gcToDelete,        \* toDelete when updateStates last returned
    gcWorkers,         \* the "delete hubs" workers started and not yet run
    gcStarted          \* for every worker the last updateStates started,
                       \* the length of toDelete at its start

gcVars == <<gcPins, gcState, gcToDelete, gcWorkers, gcStarted>>

\* The status a public hub maintains of itself.
VARIABLES
    loadAvg15,         \* metrics.LoadAvg15(): ok, and the average in 1/100
    statusLoad         \* the load the own status is maintained with

statusVars == <<loadAvg15, statusLoad>>

\* The route search: the cost of the lane between two hubs (0: no lane), the
\* peers still to explore at every hop of the current route, the routes a
\* search without the two extra bounds has found, and the length of the route
\* at which the search with the bounds discarded the branch being explored
\* (0: it did not).
VARIABLES lanes, agenda, foundUnbounded, skippedFrom
searchVars == <<lanes, agenda, foundUnbounded, skippedFrom>>


\* The teardown of one expand op, call by call: op.ended,
\* relayTerminal.abandoned, how often End called opTerminal.OpEnd and
\* op.cancelCtx, the calls in progress of every caller (innermost last) and
\* the number of calls the callers have made.
VARIABLES opEnded, relayAbandoned, opEndsFromEnd, ctxCancels, callStack, callsMade
teardownVars == <<opEnded, relayAbandoned, opEndsFromEnd, ctxCancels, callStack,
                  callsMade>>


\* The imports of one new hub that gossip channels deliver at the same time:
\* the channel that holds hubImportLock (0: none), the statement every
\* channel's call is at, what the call has applied and what it returned.
VARIABLES hubImportLock, channelPC, channelApplied, channelReturned
gossipVars == <<hubImportLock, channelPC, channelApplied, channelReturned>>


\* A call of Map.RemoveHub as its caller sees it.
VARIABLES
    removeHubCall      \* the id the last map operation, if it was RemoveHub,
                       \* was called with, and what the call pushed

removeVars == <<removeHubCall>>


\* The captain's maintenance tasks of the own announcement and status: the
\* statement each task is at, what MaintainAnnouncement or MaintainStatus and
\* the export answered in the current run, what the run has done so far, in
\* order, and the number of runs started.
VARIABLES taskPC, taskResult, taskEvents, taskRuns
captainVars == <<taskPC, taskResult, taskEvents, taskRuns>>


\* The crane update hook: craneUpdateHook (what the registered function does
\* when called, "nil" if none), the goroutine that holds craneUpdateHookLock
\* (0: none), and of every goroutine the call it is in, the function it
\* passed to RegisterCraneUpdateHook or found registered in NotifyUpdate, and
\* how often its current or last call invoked the hook.
VARIABLES craneUpdateHook, craneUpdateHookLock, hookPC, hookArg, hookCalls
hookVars == <<craneUpdateHook, craneUpdateHookLock, hookPC, hookArg, hookCalls>>


\* The units of a scheduler's current epoch: the finished and paused flags
\* of every unit, scheduler.pausedUnits and scheduler.clearanceUpTo, and of
\* every goroutine the call it is in (function and unit), the statement it
\* is at, and the number of calls made.
VARIABLES unitFinished, unitPaused, pausedUnits, clearanceUpTo, unitCall,
          unitPC, unitCalls
unitVars == <<unitFinished, unitPaused, pausedUnits, clearanceUpTo, unitCall,
              unitPC, unitCalls>>


\* findNearestPins: the proximity of every matching pin's IPv4 and IPv6
\* location to the given ones (-1: the pin or the call has no such location),
\* maxMatches as given, the pins the loop has still to visit, the nearby
\* list with its minProximity, and whether the call has returned.
VARIABLES nearLocations, nearMaxMatches, nearTodo, nearby, nearReturned
nearVars == <<nearLocations, nearMaxMatches, nearTodo, nearby, nearReturned>>


vars == <<dfqVars, craneVars, expandVars, latVars, routingVars, mapVars,
          importVars, gcVars, statusVars, searchVars, teardownVars,
          gossipVars, removeVars, captainVars, hookVars, unitVars, nearVars>>

\* What the steps of one subsystem leave alone.
DFQOnly == UNCHANGED <<craneVars, expandVars, latVars, routingVars, mapVars,
          importVars, gcVars, statusVars, searchVars, teardownVars,
          gossipVars, removeVars, captainVars, hookVars, unitVars, nearVars>>
CraneOnly == UNCHANGED <<dfqVars, expandVars, latVars, routingVars, mapVars,
          importVars, gcVars, statusVars, searchVars, teardownVars,
          gossipVars, removeVars, captainVars, hookVars, unitVars, nearVars>>
ExpandOnly == UNCHANGED <<dfqVars, craneVars, latVars, routingVars, mapVars,
          importVars, gcVars, statusVars, searchVars, teardownVars,
          gossipVars, removeVars, captainVars, hookVars, unitVars, nearVars>>
LatencyOnly == UNCHANGED <<dfqVars, craneVars, expandVars, routingVars,
          mapVars, importVars, gcVars, statusVars, searchVars, teardownVars,
          gossipVars, removeVars, captainVars, hookVars, unitVars, nearVars>>
RoutingOnly == UNCHANGED <<dfqVars, craneVars, expandVars, latVars, mapVars,
          importVars, gcVars, statusVars, searchVars, teardownVars,
          gossipVars, removeVars, captainVars, hookVars, unitVars, nearVars>>
MapOnly == UNCHANGED <<dfqVars, craneVars, expandVars, latVars, routingVars,
          importVars, gcVars, statusVars, searchVars, teardownVars,
          gossipVars, removeVars, captainVars, hookVars, unitVars, nearVars>>
ImportOnly == UNCHANGED <<dfqVars, craneVars, expandVars, latVars,
          routingVars, mapVars, gcVars, statusVars, searchVars, teardownVars,
          gossipVars, removeVars, captainVars, hookVars, unitVars, nearVars>>
GCOnly == UNCHANGED <<dfqVars, craneVars, expandVars, latVars, routingVars,
          mapVars, importVars, statusVars, searchVars, teardownVars,
          gossipVars, removeVars, captainVars, hookVars, unitVars, nearVars>>
StatusOnly == UNCHANGED <<dfqVars, craneVars, expandVars, latVars,
          routingVars, mapVars, importVars, gcVars, searchVars, teardownVars,
          gossipVars, removeVars, captainVars, hookVars, unitVars, nearVars>>
\* The route search works on the route and the found routes of Part 5.
SearchOnly == UNCHANGED <<dfqVars, craneVars, expandVars, latVars, mapVars,
          importVars, gcVars, statusVars, teardownVars, gossipVars,
          removeVars, captainVars, hookVars, unitVars, nearVars>>
TeardownOnly == UNCHANGED <<dfqVars, craneVars, expandVars, latVars,
          routingVars, mapVars, importVars, gcVars, statusVars, searchVars,
          gossipVars, removeVars, captainVars, hookVars, unitVars, nearVars>>
\* The concurrent imports work on the hub database of Part 7.
GossipOnly == UNCHANGED <<dfqVars, craneVars, expandVars, latVars,
          routingVars, mapVars, gcVars, statusVars, searchVars, teardownVars,
          removeVars, captainVars, hookVars, unitVars, nearVars>>
RemoveOnly == UNCHANGED <<dfqVars, craneVars, expandVars, latVars,
          routingVars, importVars, gcVars, statusVars, searchVars,
          teardownVars, gossipVars, captainVars, hookVars, unitVars, nearVars>>
CaptainOnly == UNCHANGED <<dfqVars, craneVars, expandVars, latVars,
          routingVars, mapVars, importVars, gcVars, statusVars, searchVars,
          teardownVars, gossipVars, removeVars, hookVars, unitVars, nearVars>>
HookOnly == UNCHANGED <<dfqVars, craneVars, expandVars, latVars, routingVars,
          mapVars, importVars, gcVars, statusVars, searchVars, teardownVars,
          gossipVars, removeVars, captainVars, unitVars, nearVars>>
UnitOnly == UNCHANGED <<dfqVars, craneVars, expandVars, latVars, routingVars,
          mapVars, importVars, gcVars, statusVars, searchVars, teardownVars,
          gossipVars, removeVars, captainVars, hookVars, nearVars>>
NearOnly == UNCHANGED <<dfqVars, craneVars, expandVars, latVars, routingVars,
          mapVars, importVars, gcVars, statusVars, searchVars, teardownVars,
          gossipVars, removeVars, captainVars, hookVars, unitVars>>

(***************************************************************************)
(* Generic helpers.                                                        *)
(***************************************************************************)
RECURSIVE SumSeq(_)
SumSeq(s) == IF s = <<>> THEN 0 ELSE Head(s) + SumSeq(Tail(s))

IsPrefix(s, t) == Len(s) <= Len(t) /\ SubSeq(t, 1, Len(s)) = s

(***************************************************************************)
(* Part 1: DuplexFlowQueue (terminal package).                             *)
(* Two terminals, c1 and c2, as in TestTerminals: what one submits         *)
(* upstream is delivered to the other.  A counter operation on each side   *)
(* sends 1..countTo and consumes what the other side sends.                *)
(***************************************************************************)
QueueSize == 2
MaxCountTo == 4

Terminals == {"c1", "c2"}
Peer(e) == IF e = "c1" THEN "c2" ELSE "c1"



DataFrame(n) == [kind |-> "data", val |-> n]
SpaceFrame(k) == [kind |-> "space", val |-> k]

\* NewDuplexFlowQueue: both sides start with queue_size credits granted.
DFQInit ==
    /\ sendQueue = [e \in Terminals |-> <<>>]
    /\ recvQueue = [e \in Terminals |-> <<>>]
    /\ sendSpace = [e \in Terminals |-> QueueSize]
    /\ reportedSpace = [e \in Terminals |-> QueueSize]
    /\ pendingSpaceReport = [e \in Terminals |-> 0]
    /\ wire = [e \in Terminals |-> <<>>]
    /\ countTo \in [Terminals -> {0, MaxCountTo}]
    /\ counterSent = [e \in Terminals |-> 0]
    /\ counterRecvd = [e \in Terminals |-> 0]
    /\ counterError = "none"

\* The threshold above which freed space is piggybacked on outbound traffic.
SpaceReportThreshold == QueueSize \div 8

\* Whether the next outbound message carries a space report ahead of it.
ShouldReportSpace(e) ==
    pendingSpaceReport[e] > 0 /\ pendingSpaceReport[e] >= SpaceReportThreshold

\* Whether a standalone space report is due once the max wait has passed.
StandaloneReportDueNever(e) == FALSE
StandaloneReportDue(e) == pendingSpaceReport[e] > 0

\* The space report frame terminal e emits: all the space freed since the
\* last report.
SpaceReportFrames(e) == <<SpaceFrame(pendingSpaceReport[e])>>

\* The reported space of terminal e after it emitted a space report.
ReportedAfterReportKept(e) == reportedSpace[e]
ReportedAfterReport(e) == reportedSpace[e] + pendingSpaceReport[e]

\* DuplexFlowQueue.Send: the operation hands a message to the send queue and
\* waits while the queue is full.
DFQSend(e) ==
    /\ counterError = "none"
    /\ counterSent[e] < countTo[e]
    /\ Len(sendQueue[e]) < QueueSize
    /\ sendQueue' = [sendQueue EXCEPT ![e] = Append(@, counterSent[e] + 1)]
    /\ counterSent' = [counterSent EXCEPT ![e] = @ + 1]
    /\ UNCHANGED <<recvQueue, sendSpace, reportedSpace, pendingSpaceReport, wire,
                   countTo, counterRecvd, counterError>>
    /\ DFQOnly

\* Whether the flow handler may take a message from the send queue.
HasSendSpaceAlways(e) == TRUE
HasSendSpace(e) == sendSpace[e] > 0

\* FlowHandler, sending: with send space left, the next queued message is
\* submitted upstream; accumulated space is reported in a frame ahead of it.
DFQFlowSend(e) ==
    /\ sendQueue[e] # <<>>
    /\ HasSendSpace(e)
    /\ sendQueue' = [sendQueue EXCEPT ![e] = Tail(@)]
    /\ sendSpace' = [sendSpace EXCEPT ![e] = @ - 1]
    /\ IF ShouldReportSpace(e)
       THEN /\ wire' = [wire EXCEPT ![e] =
                          @ \o SpaceReportFrames(e) \o <<DataFrame(Head(sendQueue[e]))>>]
            /\ reportedSpace' = [reportedSpace EXCEPT ![e] = ReportedAfterReport(e)]
            /\ pendingSpaceReport' = [pendingSpaceReport EXCEPT ![e] = 0]
       ELSE /\ wire' = [wire EXCEPT ![e] = Append(@, DataFrame(Head(sendQueue[e])))]
            /\ UNCHANGED <<reportedSpace, pendingSpaceReport>>
    /\ UNCHANGED <<recvQueue, countTo, counterSent, counterRecvd, counterError>>
    /\ DFQOnly

\* FlowHandler, idle: with no outbound traffic within the max wait (or on a
\* flush) a standalone space report is submitted.
DFQFlowReport(e) ==
    /\ StandaloneReportDue(e)
    /\ wire' = [wire EXCEPT ![e] = @ \o SpaceReportFrames(e)]
    /\ reportedSpace' = [reportedSpace EXCEPT ![e] = ReportedAfterReport(e)]
    /\ pendingSpaceReport' = [pendingSpaceReport EXCEPT ![e] = 0]
    /\ UNCHANGED <<sendQueue, recvQueue, sendSpace, countTo, counterSent,
                   counterRecvd, counterError>>
    /\ DFQOnly

\* DuplexFlowQueue.Deliver at terminal e of the oldest frame its peer
\* submitted: a space report adds to the send space, a message goes to the
\* receive queue, and a full receive queue is a QueueOverflow error.
DFQDeliver(e) ==
    LET f == Head(wire[Peer(e)]) IN
    /\ wire[Peer(e)] # <<>>
    /\ wire' = [wire EXCEPT ![Peer(e)] = Tail(@)]
    /\ IF f.kind = "space"
       THEN /\ sendSpace' = [sendSpace EXCEPT ![e] = @ + f.val]
            /\ UNCHANGED <<recvQueue, reportedSpace, counterError>>
       ELSE IF Len(recvQueue[e]) < QueueSize
       THEN /\ recvQueue' = [recvQueue EXCEPT ![e] = Append(@, f.val)]
            /\ reportedSpace' = [reportedSpace EXCEPT ![e] = @ - 1]
            /\ UNCHANGED <<sendSpace, counterError>>
       ELSE /\ counterError' = "QueueOverflow"
            /\ UNCHANGED <<recvQueue, reportedSpace, sendSpace>>
    /\ UNCHANGED <<sendQueue, pendingSpaceReport, countTo, counterSent, counterRecvd>>
    /\ DFQOnly

\* The operation layer takes the next message from Receive(); the freed slot
\* becomes reportable.  The counter op checks that it counts up by one.
DFQReceive(e) ==
    /\ recvQueue[e] # <<>>
    /\ recvQueue' = [recvQueue EXCEPT ![e] = Tail(@)]
    /\ pendingSpaceReport' = [pendingSpaceReport EXCEPT ![e] = @ + 1]
    /\ IF Head(recvQueue[e]) = counterRecvd[e] + 1
       THEN /\ counterRecvd' = [counterRecvd EXCEPT ![e] = @ + 1]
            /\ UNCHANGED counterError
       ELSE /\ counterError' = IF counterError = "none" THEN "CountMismatch" ELSE counterError
            /\ UNCHANGED counterRecvd
    /\ UNCHANGED <<sendQueue, sendSpace, reportedSpace, wire, countTo, counterSent>>
    /\ DFQOnly

DFQNext ==
    \E e \in Terminals :
        \/ DFQSend(e)
        \/ DFQFlowSend(e)
        \/ DFQFlowReport(e)
        \/ DFQDeliver(e)
        \/ DFQReceive(e)

(***************************************************************************)
(* Claims about the DuplexFlowQueue.                                       *)
(***************************************************************************)
RECURSIVE DataInFlightOf(_)
DataInFlightOf(w) ==
    IF w = <<>> THEN 0
    ELSE (IF Head(w).kind = "data" THEN 1 ELSE 0) + DataInFlightOf(Tail(w))

RECURSIVE CreditInFlightOf(_)
CreditInFlightOf(w) ==
    IF w = <<>> THEN 0
    ELSE (IF Head(w).kind = "space" THEN Head(w).val ELSE 0) + CreditInFlightOf(Tail(w))

\* The counter operation has completed on both sides without error.
CounterDone ==
    /\ counterError = "none"
    /\ \A e \in Terminals : counterRecvd[e] = countTo[Peer(e)]

Quiesced == \A e \in Terminals : wire[e] = <<>> /\ pendingSpaceReport[e] = 0

\* C1 (as stated): for both directions, the send space of a terminal plus the
\* messages in flight from it to its peer equals the peer's reported space.
C1_SendSpacePlusInFlightAsStated ==
    \A e \in Terminals :
        sendSpace[e] + DataInFlightOf(wire[e]) = reportedSpace[Peer(e)]

\* C1 (amended): for both directions, the send space of a terminal, plus the
\* messages in flight from it to its peer, plus the space carried by the
\* space reports in flight from the peer to it, equals the peer's reported
\* space; with nothing in flight the two counters are equal.
C1_SendSpaceMatchesReportedSpace ==
    \A e \in Terminals :
        /\ sendSpace[e] + DataInFlightOf(wire[e]) + CreditInFlightOf(wire[Peer(e)])
              = reportedSpace[Peer(e)]
        /\ (wire["c1"] = <<>> /\ wire["c2"] = <<>>) =>
              sendSpace[e] = reportedSpace[Peer(e)]

\* A two-way counter operation has completed, all traffic has quiesced, and
\* space had been used and reported on the way.
C1_Witness ==
    /\ CounterDone
    /\ Quiesced
    /\ \A e \in Terminals : countTo[e] = MaxCountTo /\ sendSpace[e] = QueueSize

\* C2: delivering a frame to the peer never fails with an overflow: no
\* terminal ever buffers more than queue_size unconsumed messages and no
\* Deliver returns an error.
C2_DeliverNeverOverflows ==
    /\ counterError = "none"
    /\ \A e \in Terminals :
        /\ Len(recvQueue[e]) + DataInFlightOf(wire[Peer(e)]) <= QueueSize
        /\ sendSpace[e] >= 0

\* A receive queue is full while its sender still has messages to send.
C2_Witness ==
    \E e \in Terminals :
        /\ Len(recvQueue[e]) = QueueSize
        /\ sendQueue[Peer(e)] # <<>>
        /\ sendSpace[Peer(e)] = 0

SenderBlocked(e) == sendSpace[e] = 0 /\ sendQueue[e] # <<>>

\* C3: flow control never deadlocks: every counter operation, one-way or
\* two-way, counting to more than queue_size, eventually completes without
\* error, and no sender stays blocked at send space 0: again and again every
\* sender with queued messages has send space.
C3_CounterEventuallyCompletes ==
    /\ <>[]CounterDone
    /\ []<>(\A e \in Terminals : ~SenderBlocked(e))

\* A sender that counts to at least twice the queue size is blocked with a
\* full send queue and no send space.
C3_Witness ==
    \E e \in Terminals :
        /\ countTo[e] >= 2 * QueueSize
        /\ sendSpace[e] = 0
        /\ Len(sendQueue[e]) = QueueSize


(***************************************************************************)
(* Part 2: Crane (docks package): terminal messages over a ship.           *)
(* crane1 frames the messages submitted with submitTerminalMsg as          *)
(* (terminal_id, payload_len, payload), sealing the payload when the crane *)
(* is encrypted, and writes the byte stream to the ship in loads of at     *)
(* most LoadSize bytes; crane2 unloads, re-assembles the frames and        *)
(* delivers each payload to the terminal registered under the frame's ID.  *)
(***************************************************************************)
LoadSize == 2
MaxMsgs == 3
ByteMod == 3
SessionKey == 1

\* Terminal IDs registered on both cranes (data terminals have IDs >= 4).
StreamTerminalIDs == {4, 8}
\* Message contents; the longest is longer than a ship load.
TestPayloads == {<<1>>, <<2, 0, 1>>}



CraneInit ==
    /\ craneEncrypting \in BOOLEAN
    /\ terminalMsgs = <<>>
    /\ loadBuf = <<>>
    /\ shipLoads = <<>>
    /\ unloadBuf = <<>>
    /\ submitted = [t \in StreamTerminalIDs |-> <<>>]
    /\ delivered = [t \in StreamTerminalIDs |-> <<>>]

\* The session seals and opens a payload byte by byte; without a session the
\* payload is the raw terminal payload.
SealByte(b) == IF craneEncrypting THEN (b + SessionKey) % ByteMod ELSE b
OpenByte(b) == IF craneEncrypting THEN (b + ByteMod - SessionKey) % ByteMod ELSE b

Seal(data) == [i \in 1..Len(data) |-> SealByte(data[i])]
Open(data) == [i \in 1..Len(data) |-> OpenByte(data[i])]

\* The wire frame of one terminal message.
EncodeFrame(m) == <<m.tid, Len(m.data)>> \o Seal(m.data)

\* Whether buf starts with a complete frame.
HasFrame(buf) == Len(buf) >= 2 /\ Len(buf) >= 2 + buf[2]

\* The complete frames at the start of buf, and the bytes left over.
RECURSIVE ParseFrames(_)
ParseFrames(buf) ==
    IF HasFrame(buf)
    THEN LET m == [tid |-> buf[1], data |-> Open(SubSeq(buf, 3, 2 + buf[2]))]
             r == ParseFrames(SubSeq(buf, 3 + buf[2], Len(buf)))
         IN  [msgs |-> <<m>> \o r.msgs, rest |-> r.rest]
    ELSE [msgs |-> <<>>, rest |-> buf]

\* The bytes the unloader keeps for the next load.
KeptAfterUnloadNone(buf) == <<>>
KeptAfterUnload(buf) == ParseFrames(buf).rest

\* Delivering the messages msgs, in order, to the terminals in del.
RECURSIVE DeliverAll(_, _)
DeliverAll(del, msgs) ==
    IF msgs = <<>> THEN del
    ELSE LET m == Head(msgs) IN
         DeliverAll(IF m.tid \in DOMAIN del
                    THEN [del EXCEPT ![m.tid] = Append(@, m.data)]
                    ELSE del,
                    Tail(msgs))

\* Crane.submitTerminalMsg on crane1.
CraneSubmit(t, d) ==
    /\ Len(submitted[4]) + Len(submitted[8]) < MaxMsgs
    /\ terminalMsgs' = Append(terminalMsgs, [tid |-> t, data |-> d])
    /\ submitted' = [submitted EXCEPT ![t] = Append(@, d)]
    /\ UNCHANGED <<craneEncrypting, loadBuf, shipLoads, unloadBuf, delivered>>
    /\ CraneOnly

\* Crane.loader on crane1, taking the next message into the current batch.
CraneLoaderTake ==
    /\ terminalMsgs # <<>>
    /\ loadBuf' = loadBuf \o EncodeFrame(Head(terminalMsgs))
    /\ terminalMsgs' = Tail(terminalMsgs)
    /\ UNCHANGED <<craneEncrypting, shipLoads, unloadBuf, submitted, delivered>>
    /\ CraneOnly

\* The size of the next ship load: a full load, or what there is of the
\* batch when the max wait passed or a terminal flushed.
NextLoadSize == IF Len(loadBuf) < LoadSize THEN Len(loadBuf) ELSE LoadSize

\* Crane.loader on crane1, writing one load of the batch to the ship.
CraneLoaderLoad ==
    /\ loadBuf # <<>>
    /\ shipLoads' = Append(shipLoads, SubSeq(loadBuf, 1, NextLoadSize))
    /\ loadBuf' = SubSeq(loadBuf, NextLoadSize + 1, Len(loadBuf))
    /\ UNCHANGED <<craneEncrypting, terminalMsgs, unloadBuf, submitted, delivered>>
    /\ CraneOnly

\* Crane.unloader on crane2: unloads one load and delivers every frame that
\* is complete with it.
CraneUnload ==
    /\ shipLoads # <<>>
    /\ LET buf == unloadBuf \o Head(shipLoads) IN
        /\ delivered' = DeliverAll(delivered, ParseFrames(buf).msgs)
        /\ unloadBuf' = KeptAfterUnload(buf)
    /\ shipLoads' = Tail(shipLoads)
    /\ UNCHANGED <<craneEncrypting, terminalMsgs, loadBuf, submitted>>
    /\ CraneOnly

CraneNext ==
    \/ \E t \in StreamTerminalIDs, d \in TestPayloads : CraneSubmit(t, d)
    \/ CraneLoaderTake
    \/ CraneLoaderLoad
    \/ CraneUnload

(***************************************************************************)
(* Claims about the crane.                                                 *)
(***************************************************************************)
CraneDrained ==
    terminalMsgs = <<>> /\ loadBuf = <<>> /\ shipLoads = <<>> /\ unloadBuf = <<>>

\* C4: every message submitted to a crane for terminal ID t is delivered to
\* the terminal with ID t on the peer crane exactly once, unchanged and in
\* submission order, plain and encrypted: what was delivered to t is always
\* a prefix of what was submitted for t, and is all of it once the cranes
\* have drained.
C4_DeliveredInOrderUnchanged ==
    \A t \in StreamTerminalIDs :
        /\ IsPrefix(delivered[t], submitted[t])
        /\ CraneDrained => delivered[t] = submitted[t]

\* An encrypted crane pair has delivered MaxMsgs messages, among them one that
\* is longer than a ship load, to two different terminals.
C4_Witness ==
    /\ craneEncrypting
    /\ CraneDrained
    /\ Len(delivered[4]) + Len(delivered[8]) = MaxMsgs
    /\ delivered[4] # <<>>
    /\ \E i \in 1..Len(delivered[8]) : Len(delivered[8][i]) > LoadSize

(***************************************************************************)
(* Part 3: Expand operation (docks package).                               *)
(* This hub relays between an origin terminal, on which expand operations  *)
(* are requested, and the relay crane assigned to the destination hub.     *)
(* Every expand op owns two flow queues and four workers; its origin side  *)
(* is ended with ExpandOp.End / Abandon and its relay side with            *)
(* ExpansionRelayTerminal.Abandon, possibly at the same time.              *)
(***************************************************************************)
MaxOps == 2
MaxFrames == 2

Ops == 1..MaxOps

\* Destination hubs of a request: hub3 has an assigned crane, hub4 has none;
\* "malformed" stands for init data without a destination block.
AssignedHubs == {"hub3"}
Destinations == {"hub3", "hub4", "malformed"}

\* Errors an end of the origin side, and an abandon of the relay side, carry.
\* An error is the sequence of its wrappings, outermost first; nil is empty.
Nil == <<>>
OriginErrors == {Nil, <<"ErrStopping">>}
RelayErrors == {Nil, <<"ErrShipSunk">>}

\* The first terminal ID the relay crane hands out.
FirstTerminalID == 4



\* An expand request that has not been made yet.
NoOp ==
    [ result        |-> "none",    \* what expand returned: "ok" or the error
      request       |-> "none",    \* the init data: destination, options parse
      registered    |-> FALSE,     \* the origin terminal has the op registered
      relayID       |-> 0,         \* relayTerminal.id
      ended         |-> FALSE,     \* op.ended
      abandoned     |-> FALSE,     \* relayTerminal.abandoned
      ctxCancelled  |-> FALSE,     \* op.cancelCtx was called
      flowHandlers  |-> "none",    \* the two FlowHandler workers: none, running
      forward       |-> "none",    \* forwardHandler: none, started, running, returned
      backward      |-> "none",    \* backwardHandler: none, running, returned
      opEndCalls    |-> <<>>,      \* errors given to opTerminal.OpEnd
      abandonCalls  |-> <<>>,      \* errors given to crane.AbandonTerminal
      endedBy       |-> "none",    \* whose call set op.ended: origin or relay
      endErr        |-> Nil,     \* the error that call was given
      originDelivered |-> 0,       \* frames delivered to op.DuplexFlowQueue
      originRecvQ   |-> <<>>,      \* op.DuplexFlowQueue.Receive()
      relaySendQ    |-> <<>>,      \* relayTerminal.DuplexFlowQueue send queue
      relaySubmitted |-> <<>>,     \* messages submitted to the relay crane
      relayDelivered |-> 0,        \* frames delivered to the relay terminal
      relayRecvQ    |-> <<>>,      \* relayTerminal.DuplexFlowQueue.Receive()
      originSendQ   |-> <<>>,      \* op.DuplexFlowQueue send queue
      opSendCalls   |-> <<>> ]     \* frames given to opTerminal.OpSend

ExpandInit ==
    /\ publicHub \in BOOLEAN
    /\ \/ opsAllowed = MaxOps /\ framesAllowed = 0
       \/ opsAllowed = 1 /\ framesAllowed = MaxFrames
    /\ newExpandOp = 0
    /\ craneLookups = 0
    /\ nextTerminalID = FirstTerminalID
    /\ craneTerminals = {}
    /\ activeExpandOps = 0
    /\ ops = [o \in Ops |-> NoOp]

\* Error.Wrap: a nil error stays nil.
Wrap(err) == IF err = Nil THEN Nil ELSE <<"wrapped">> \o err

\* terminal.MakeMsg(c, id, MsgTypeData)
MakeMsg(c, id) == [tid |-> id, type |-> "data", val |-> c]

\* The init data of an expand request: the destination hub block and whether
\* the terminal options after it parse.
Request(dst, optsOK) == [dst |-> dst, optsOK |-> optsOK]

\* The error expand returns before it creates the operation, or "ok".
\* (The public hub check comes first.)
ExpandPrecheckNoCraneCheck(dst, optsOK) ==
    IF ~publicHub THEN "PermissionDenied"
    ELSE IF dst = "malformed" THEN "MalformedData"
    ELSE IF ~optsOK THEN "MalformedOpts"
    ELSE "ok"
ExpandPrecheckNoPermission(dst, optsOK) ==
    IF dst = "malformed" THEN "MalformedData"
    ELSE IF ~optsOK THEN "MalformedOpts"
    ELSE IF dst \notin AssignedHubs THEN "HubUnavailable"
    ELSE "ok"
ExpandPrecheck(dst, optsOK) ==
    IF ~publicHub THEN "PermissionDenied"
    ELSE IF dst = "malformed" THEN "MalformedData"
    ELSE IF ~optsOK THEN "MalformedOpts"
    ELSE IF dst \notin AssignedHubs THEN "HubUnavailable"
    ELSE "ok"

\* Whether expand gets as far as GetAssignedCrane.
LooksUpCrane(dst, optsOK) ==
    ExpandPrecheck(dst, optsOK) \in {"HubUnavailable", "ok"}

\* The error expand returns after it created the operation, or "ok".
ExpandEstablish(packOK, establishOK) ==
    IF ~packOK THEN "InternalError"
    ELSE IF ~establishOK THEN "EstablishFailed"
    ELSE "ok"

\* expand: the handler of an expand request, the o-th of the run. An input
\* that a request does not get to read (the options after a malformed
\* destination, the outcome of a step after the failing one) is left TRUE.
Expand(o, dst, optsOK, packOK, establishOK) ==
    /\ ops[o].result = "none"
    /\ o <= opsAllowed
    /\ \A p \in Ops : p < o => ops[p].result # "none"
    /\ dst = "malformed" => optsOK
    /\ ExpandPrecheck(dst, optsOK) # "ok" => packOK /\ establishOK
    /\ ~packOK => establishOK
    /\ newExpandOp' = newExpandOp + 1
    /\ craneLookups' = IF LooksUpCrane(dst, optsOK) THEN craneLookups + 1 ELSE craneLookups
    /\ IF ExpandPrecheck(dst, optsOK) # "ok"
       THEN /\ ops' = [ops EXCEPT ![o].result = ExpandPrecheck(dst, optsOK),
                                  ![o].request = Request(dst, optsOK)]
            /\ UNCHANGED <<nextTerminalID, craneTerminals>>
       ELSE /\ nextTerminalID' = nextTerminalID + 1
            /\ IF ExpandEstablish(packOK, establishOK) # "ok"
               THEN /\ ops' = [ops EXCEPT ![o].result = ExpandEstablish(packOK, establishOK),
                                          ![o].request = Request(dst, optsOK),
                                          ![o].relayID = nextTerminalID]
                    /\ UNCHANGED craneTerminals
               ELSE /\ ops' = [ops EXCEPT ![o].result = "ok",
                                          ![o].request = Request(dst, optsOK),
                                          ![o].registered = TRUE,
                                          ![o].relayID = nextTerminalID,
                                          ![o].flowHandlers = "running",
                                          ![o].forward = "started",
                                          ![o].backward = "running"]
                    /\ craneTerminals' = craneTerminals \cup {nextTerminalID}
    /\ UNCHANGED <<publicHub, opsAllowed, framesAllowed, activeExpandOps>>
    /\ ExpandOnly

ExpandUnchangedButOps ==
    /\ UNCHANGED <<publicHub, opsAllowed, framesAllowed, newExpandOp, craneLookups,
                    nextTerminalID, craneTerminals, activeExpandOps>>
    /\ ExpandOnly

\* ---- ending ----

\* The error End hands to crane.AbandonTerminal for the relay terminal.
RelayAbandonErrorOfEnd(err) == Nil

\* Whether the op's context is cancelled after End ran.
CtxAfterEnd(op) == TRUE

\* The body of ExpandOp.End for the op record op, called by side with err:
\* if op.ended.SetToIf(false, true), then opTerminal.OpEnd(op, err), which
\* also unregisters the op, op.cancelCtx(), and
\* relayTerminal.crane.AbandonTerminal(relayTerminal.id, nil).
EndOf(op, err, side) ==
    IF op.ended THEN op
    ELSE [op EXCEPT !.ended = TRUE,
                    !.endedBy = side,
                    !.opEndCalls = Append(@, err),
                    !.registered = FALSE,
                    !.ctxCancelled = CtxAfterEnd(op),
                    !.abandonCalls = Append(@, RelayAbandonErrorOfEnd(err))]

\* The relay crane's terminals after AbandonTerminal was called for the
\* relay terminal of op.
TerminalsAfterAbandon(op) == craneTerminals \ {op.relayID}

\* ExpandOp.End. On an op that has ended, op.ended.SetToIf fails and End
\* returns without doing anything: the state stays as it is.
ExpandOpEnd(o, err) ==
    /\ ops[o].result = "ok"
    /\ ~ops[o].ended
    /\ ops' = [ops EXCEPT ![o] = [EndOf(@, err, "origin") EXCEPT !.endErr = err]]
    /\ craneTerminals' = TerminalsAfterAbandon(ops[o])
    /\ UNCHANGED <<publicHub, opsAllowed, framesAllowed, newExpandOp, craneLookups,
                   nextTerminalID, activeExpandOps>>
    /\ ExpandOnly

\* ExpandOp.Abandon: the proxy the flow queues use.
ExpandOpAbandon(o, err) == ExpandOpEnd(o, err)

\* The error ExpansionRelayTerminal.Abandon hands to the op's End.
EndErrorOfRelayAbandonRaw(err) == err
EndErrorOfRelayAbandon(err) == Wrap(err)

\* ExpansionRelayTerminal.Abandon: if t.abandoned.SetToIf(false, true), then
\* t.crane.AbandonTerminal(t.id, err) and t.op.End(err.Wrap("relay failed with")),
\* which does nothing on an op that has ended. On an abandoned relay terminal
\* SetToIf fails and the state stays as it is.
RelayAbandon(o, err) ==
    /\ ops[o].result = "ok"
    /\ ~ops[o].abandoned
    /\ ops' = [ops EXCEPT ![o] =
                 LET a == [@ EXCEPT !.abandoned = TRUE,
                                    !.abandonCalls = Append(@, err)]
                 IN  IF a.ended THEN a
                     ELSE [EndOf(a, EndErrorOfRelayAbandon(err), "relay")
                              EXCEPT !.endErr = err]]
    /\ craneTerminals' = TerminalsAfterAbandon(ops[o])
    /\ UNCHANGED <<publicHub, opsAllowed, framesAllowed, newExpandOp, craneLookups,
                   nextTerminalID, activeExpandOps>>
    /\ ExpandOnly

\* ---- relaying ----

\* The origin terminal delivers the next frame of the op to its flow queue.
OriginDeliver(o) ==
    /\ ops[o].result = "ok"
    /\ ops[o].registered
    /\ ops[o].originDelivered < framesAllowed
    /\ ops' = [ops EXCEPT ![o].originDelivered = @ + 1,
                          ![o].originRecvQ = Append(@, ops[o].originDelivered + 1)]
    /\ ExpandUnchangedButOps

\* The relay crane delivers the next frame for the relay terminal to its
\* flow queue.
RelayDeliver(o) ==
    /\ ops[o].result = "ok"
    /\ ops[o].relayID \in craneTerminals
    /\ ops[o].relayDelivered < framesAllowed
    /\ ops' = [ops EXCEPT ![o].relayDelivered = @ + 1,
                          ![o].relayRecvQ = Append(@, ops[o].relayDelivered + 1)]
    /\ ExpandUnchangedButOps

\* forwardHandler, entry: atomic.AddInt64(activeExpandOps, 1).
ForwardStart(o) ==
    /\ ops[o].forward = "started"
    /\ ops' = [ops EXCEPT ![o].forward = "running"]
    /\ activeExpandOps' = activeExpandOps + 1
    /\ UNCHANGED <<publicHub, opsAllowed, framesAllowed, newExpandOp, craneLookups,
                   nextTerminalID, craneTerminals>>
    /\ ExpandOnly

\* DuplexFlowQueue.Send fails for a sender whose terminal context is done: it
\* returns Stopping. Both flow queues of the op have the op's context.
SendStopsAnytime(op) == TRUE
SendStops(op) == op.ctxCancelled

\* What the forward handler puts on the relay side's send queue for frame c.
ForwardedTwice(q, c) == q \o <<c, c>>
Forwarded(q, c) == Append(q, c)

\* forwardHandler, case c := <-op.DuplexFlowQueue.Receive(): the frame is sent
\* to the relay terminal's flow queue.
ForwardRelay(o) ==
    /\ ops[o].forward = "running"
    /\ ops[o].originRecvQ # <<>>
    /\ ~ops[o].ctxCancelled
    /\ ops' = [ops EXCEPT ![o].originRecvQ = Tail(@),
                          ![o].relaySendQ = Forwarded(@, Head(ops[o].originRecvQ))]
    /\ ExpandUnchangedButOps

\* The number of active expand ops after a forward handler returned.
ActiveAfterReturnKept(n) == n
ActiveAfterReturn(n) == n - 1

\* forwardHandler, the same case with the context done: Send may still take
\* the frame, or fail, and then the handler returns the error.
ForwardRelayStopping(o, sendOK) ==
    /\ ops[o].forward = "running"
    /\ ops[o].originRecvQ # <<>>
    /\ SendStops(ops[o])
    /\ IF sendOK
       THEN /\ ops' = [ops EXCEPT ![o].originRecvQ = Tail(@),
                                  ![o].relaySendQ = Forwarded(@, Head(ops[o].originRecvQ))]
            /\ UNCHANGED activeExpandOps
       ELSE /\ ops' = [ops EXCEPT ![o].originRecvQ = Tail(@),
                                  ![o].forward = "returned"]
            /\ activeExpandOps' = ActiveAfterReturn(activeExpandOps)
    /\ UNCHANGED <<publicHub, opsAllowed, framesAllowed, newExpandOp, craneLookups,
                   nextTerminalID, craneTerminals>>
    /\ ExpandOnly

\* forwardHandler, case <-op.ctx.Done(): return, running the deferred
\* atomic.AddInt64(activeExpandOps, -1).
ForwardDone(o) ==
    /\ ops[o].forward = "running"
    /\ ops[o].ctxCancelled
    /\ ops' = [ops EXCEPT ![o].forward = "returned"]
    /\ activeExpandOps' = ActiveAfterReturn(activeExpandOps)
    /\ UNCHANGED <<publicHub, opsAllowed, framesAllowed, newExpandOp, craneLookups,
                   nextTerminalID, craneTerminals>>
    /\ ExpandOnly

\* backwardHandler, case c := <-op.relayTerminal.DuplexFlowQueue.Receive():
\* the frame is sent to the op's flow queue.
BackwardRelay(o) ==
    /\ ops[o].backward = "running"
    /\ ops[o].relayRecvQ # <<>>
    /\ ~ops[o].ctxCancelled
    /\ ops' = [ops EXCEPT ![o].relayRecvQ = Tail(@),
                          ![o].originSendQ = Append(@, Head(ops[o].relayRecvQ))]
    /\ ExpandUnchangedButOps

\* backwardHandler, the same case with the context done.
BackwardRelayStopping(o, sendOK) ==
    /\ ops[o].backward = "running"
    /\ ops[o].relayRecvQ # <<>>
    /\ SendStops(ops[o])
    /\ ops' = [ops EXCEPT ![o] =
                 IF sendOK
                 THEN [@ EXCEPT !.relayRecvQ = Tail(@),
                                !.originSendQ = Append(@, Head(ops[o].relayRecvQ))]
                 ELSE [@ EXCEPT !.relayRecvQ = Tail(@), !.backward = "returned"]]
    /\ ExpandUnchangedButOps

\* Whether the backward handler's select has its case <-op.ctx.Done() ready.
CtxDoneNever(op) == FALSE
CtxDone(op) == op.ctxCancelled

\* backwardHandler, case <-op.ctx.Done().
BackwardDone(o) ==
    /\ ops[o].backward = "running"
    /\ CtxDone(ops[o])
    /\ ops' = [ops EXCEPT ![o].backward = "returned"]
    /\ ExpandUnchangedButOps

\* The relay terminal's FlowHandler, until the context is done, submits the
\* next queued frame: submitForwardstream addresses it to the relay
\* terminal's ID and hands it to the relay crane.
SubmitForwardstream(o) ==
    /\ ops[o].flowHandlers = "running"
    /\ ~ops[o].ctxCancelled
    /\ ops[o].relaySendQ # <<>>
    /\ ops' = [ops EXCEPT ![o].relaySendQ = Tail(@),
                          ![o].relaySubmitted =
                              Append(@, MakeMsg(Head(ops[o].relaySendQ), ops[o].relayID))]
    /\ ExpandUnchangedButOps

\* The op's FlowHandler, until the context is done, submits the next queued
\* frame: submitBackstream sends it with OpSend, and if that fails (the
\* origin terminal refuses it) ends the op on the origin terminal with OpEnd.
SubmitBackstream(o, sendOK) ==
    /\ ops[o].flowHandlers = "running"
    /\ ~ops[o].ctxCancelled
    /\ ops[o].originSendQ # <<>>
    /\ ops' = [ops EXCEPT ![o] =
                 IF sendOK
                 THEN [@ EXCEPT !.originSendQ = Tail(@),
                                !.opSendCalls = Append(@, Head(ops[o].originSendQ))]
                 ELSE [@ EXCEPT !.originSendQ = Tail(@),
                                !.opSendCalls = Append(@, Head(ops[o].originSendQ)),
                                !.opEndCalls = Append(@, Wrap(<<"ErrSendFailed">>)),
                                !.registered = FALSE]]
    /\ ExpandUnchangedButOps

ExpandNext ==
    \/ \E o \in Ops, dst \in Destinations, optsOK, packOK, establishOK \in BOOLEAN :
          Expand(o, dst, optsOK, packOK, establishOK)
    \/ \E o \in Ops, err \in OriginErrors : ExpandOpEnd(o, err)
    \/ \E o \in Ops, err \in OriginErrors : ExpandOpAbandon(o, err)
    \/ \E o \in Ops, err \in RelayErrors : RelayAbandon(o, err)
    \/ \E o \in Ops :
          \/ OriginDeliver(o)
          \/ RelayDeliver(o)
          \/ ForwardStart(o)
          \/ ForwardRelay(o)
          \/ ForwardDone(o)
          \/ BackwardRelay(o)
          \/ BackwardDone(o)
          \/ SubmitForwardstream(o)
    \/ \E o \in Ops, sendOK \in BOOLEAN :
          \/ ForwardRelayStopping(o, sendOK)
          \/ BackwardRelayStopping(o, sendOK)
          \/ SubmitBackstream(o, sendOK)

(***************************************************************************)
(* Claims about the expand operation.                                      *)
(***************************************************************************)
\* The expand ops that were set up completely.
StartedOps == {o \in Ops : ops[o].result = "ok"}

\* Expand request o is handled in this step.
Handled(o) == ops[o].result = "none" /\ ops'[o].result # "none"

\* A request with well-formed init data for a hub without an assigned crane.
NoCraneRequest(r) ==
    r.dst # "malformed" /\ r.optsOK /\ r.dst \notin AssignedHubs

\* C5: on a public hub, an expand request with well-formed init data whose
\* destination hub has no assigned crane fails with HubUnavailable and has no
\* other effect: the request's record holds nothing but the error (no relay
\* terminal ID, no worker, not registered), no terminal ID is allocated, no
\* terminal is added to a crane, activeExpandOps and every other op are
\* unchanged.
C5_NoCraneFailsWithoutEffect ==
    [][\A o \in Ops :
          (Handled(o) /\ publicHub /\ NoCraneRequest(ops'[o].request)) =>
              /\ ops'[o] = [NoOp EXCEPT !.result = "HubUnavailable",
                                        !.request = ops'[o].request]
              /\ \A p \in Ops \ {o} : ops'[p] = ops[p]
              /\ UNCHANGED <<nextTerminalID, craneTerminals, activeExpandOps>>]_vars

\* A request for a hub without a crane failed after another op was started.
C5_Witness ==
    \E o, p \in Ops :
        /\ ops[o].result = "HubUnavailable"
        /\ NoCraneRequest(ops[o].request)
        /\ ops[p].result = "ok"
        /\ ops[p].forward = "running"
        /\ activeExpandOps = 1
        /\ nextTerminalID = FirstTerminalID + 1

\* C6: on a hub that is not public every expand request is rejected with
\* PermissionDenied, and no relay crane was looked up, no terminal ID was
\* allocated, no terminal was added to a crane and no worker was started.
C6_NonPublicHubRejectsFirst ==
    ~publicHub =>
        /\ \A o \in Ops :
              \/ ops[o] = NoOp
              \/ ops[o] = [NoOp EXCEPT !.result = "PermissionDenied",
                                       !.request = ops[o].request]
        /\ craneLookups = 0
        /\ nextTerminalID = FirstTerminalID
        /\ craneTerminals = {}
        /\ activeExpandOps = 0

\* A request that would otherwise succeed was rejected on a non-public hub.
C6_Witness ==
    /\ ~publicHub
    /\ \E o \in Ops :
          /\ ops[o].result = "PermissionDenied"
          /\ ops[o].request = Request("hub3", TRUE)

\* The error ExpandOp.End gave to opTerminal.OpEnd.
EndCall(op) == op.opEndCalls[Len(op.opEndCalls)]

\* Either side of the op has ended: the context is cancelled, the op was
\* ended on the origin terminal and the relay terminal is off its crane.
BothSidesEnded(o) ==
    /\ ops[o].ended
    /\ ops[o].ctxCancelled
    /\ ~ops[o].registered
    /\ ops[o].opEndCalls # <<>>
    /\ ops[o].abandonCalls # <<>>
    /\ ops[o].relayID \notin craneTerminals

\* C7, as stated: when either side of a running expand op ends, the context
\* is cancelled, the op is ended on the origin terminal, the relay terminal
\* is abandoned on the relay crane, and the side that did not originate the
\* end is abandoned with a wrapped error: the relay terminal with the wrapped
\* error of End, the origin op with the wrapped error of Abandon.
C7_OtherSideGetsWrappedErrorAsStated ==
    \A o \in StartedOps :
        (ops[o].ended \/ ops[o].abandoned) =>
            /\ BothSidesEnded(o)
            /\ ops[o].endedBy = "origin" =>
                  ops[o].abandonCalls[1] = Wrap(ops[o].endErr)
            /\ ops[o].endedBy = "relay" => EndCall(ops[o]) = Wrap(ops[o].endErr)

\* C7, amended: when either side of a running expand op ends, the context is
\* cancelled, the op is ended on the origin terminal and the relay terminal
\* is abandoned on the relay crane. When the relay side originated the end,
\* the relay terminal is abandoned with the error as given and the origin op
\* is ended with that error wrapped; when the origin side originated it, the
\* origin op is ended with the error as given and the relay terminal is
\* abandoned without an error.
C7_EndReachesBothSides ==
    \A o \in StartedOps :
        (ops[o].ended \/ ops[o].abandoned) =>
            /\ BothSidesEnded(o)
            /\ ops[o].endedBy = "origin" =>
                  /\ EndCall(ops[o]) = ops[o].endErr
                  /\ ops[o].abandonCalls[1] = Nil
            /\ ops[o].endedBy = "relay" =>
                  /\ EndCall(ops[o]) = Wrap(ops[o].endErr)
                  /\ ops[o].abandonCalls = <<ops[o].endErr, Nil>>

\* One op was ended from its origin side and one from its relay side, each
\* with an error.
C7_Witness ==
    \E o, p \in StartedOps :
        /\ ops[o].endedBy = "origin" /\ ops[o].endErr = <<"ErrStopping">>
        /\ ops[p].endedBy = "relay" /\ ops[p].endErr = <<"ErrShipSunk">>
        /\ EndCall(ops[p]) = <<"wrapped", "ErrShipSunk">>

\* The ops whose forward handler is between its increment and its decrement
\* of activeExpandOps.
ForwardRunning == {o \in Ops : ops[o].forward = "running"}

\* C8: activeExpandOps is never negative and counts exactly the ops whose
\* forward handler has entered and not returned: a forward handler enters
\* once and returns once per started op, and an op that ended stays ended.
\* After an op ends, its forward handler eventually returns: again and again
\* every op that has ended has its forward handler returned, and the counter
\* is 0 then if every started op has ended.
C8_ActiveExpandOpsBalanced ==
    /\ [](/\ activeExpandOps >= 0
          /\ activeExpandOps = Cardinality(ForwardRunning)
          /\ \A o \in Ops : ops[o].forward # "none" <=> o \in StartedOps)
    /\ [][\A o \in Ops :
            /\ ops[o].forward = "running" => ops'[o].forward \in {"running", "returned"}
            /\ ops[o].forward = "returned" => ops'[o].forward = "returned"
            /\ ops[o].ended => ops'[o].ended]_vars
    /\ []<>(/\ \A o \in Ops : ops[o].ended => ops[o].forward = "returned"
            /\ (\A o \in StartedOps : ops[o].ended) => activeExpandOps = 0)

\* Every request was started, all ops were torn down and the counter is back
\* at 0.
C8_Witness ==
    /\ StartedOps = Ops
    /\ \A o \in Ops : ops[o].ended /\ ops[o].forward = "returned"
    /\ activeExpandOps = 0

\* The frames 1..n in the order they were delivered.
FramesTo(n) == [i \in 1..n |-> i]

\* The frames of the messages submitted to the relay crane.
SubmittedFrames(op) == [i \in 1..Len(op.relaySubmitted) |-> op.relaySubmitted[i].val]

\* C9: while an expand op is running, the frames received on the origin side
\* are, in the order received and each exactly once, those submitted to the
\* relay crane under the relay terminal's ID, followed by those queued on the
\* relay side and those not yet taken by the forward handler; and likewise
\* from the relay side to the origin terminal. At any time, what went out on
\* one side is a prefix of what came in on the other.
C9_RelayKeepsFramesInOrder ==
    \A o \in StartedOps :
        /\ \A i \in 1..Len(ops[o].relaySubmitted) :
              ops[o].relaySubmitted[i].tid = ops[o].relayID
        /\ IsPrefix(SubmittedFrames(ops[o]) \o ops[o].relaySendQ,
                    FramesTo(ops[o].originDelivered))
        /\ IsPrefix(ops[o].opSendCalls \o ops[o].originSendQ,
                    FramesTo(ops[o].relayDelivered))
        /\ ~ops[o].ctxCancelled =>
              /\ SubmittedFrames(ops[o]) \o ops[o].relaySendQ \o ops[o].originRecvQ
                     = FramesTo(ops[o].originDelivered)
              /\ ops[o].opSendCalls \o ops[o].originSendQ \o ops[o].relayRecvQ
                     = FramesTo(ops[o].relayDelivered)

\* A running op has relayed every frame of the run in both directions.
C9_Witness ==
    \E o \in StartedOps :
        /\ ~ops[o].ctxCancelled
        /\ Len(ops[o].relaySubmitted) = MaxFrames
        /\ Len(ops[o].opSendCalls) = MaxFrames
        /\ MaxFrames >= 2

\* A relay handler of the op returns the error of a failed Send.
SendFailedExit(o) ==
    ForwardRelayStopping(o, FALSE) \/ BackwardRelayStopping(o, FALSE)

\* Neither or both relay handlers of every op have returned.
NoHalfOpenRelay ==
    \A o \in Ops :
        (ops[o].forward = "returned") <=> (ops[o].backward = "returned")

latencyPingRequest == 1
latencyPingResponse == 2
latencyTestRuns == 10

\* Round trip times are 1..MaxRTT ticks.
MaxRTT == 2
\* The last samples of a run for which the peer may send a response that
\* answers no outstanding ping.
MaxUnsolicited == 1

\* time.Hour, in ticks: more than any round trip of an op that times out
\* after 30 s.
Hour == MaxRTT + 1

\* The terminal the op runs on: a crane controller with a connected hub, the
\* controller of an own crane without one, or a test terminal that is no
\* crane controller.
TerminalKinds == {"controller", "controllerNoHub", "testTerminal"}

\* A response of the server op: the type byte and the nonce after it.
Response(rType, nonce) == [rType |-> rType, nonce |-> nonce]

\* No Deliver call is in progress.
NoResponse == Response(0, 0)

\* The op before NewLatencyTestOp, in the given phase.
LatencyStateIn(phase) ==
    /\ latPhase = phase
    /\ latRegistered = FALSE
    /\ pingsSent = 0
    /\ lastPingNonce = 0
    /\ measuredLatencies = <<>>
    /\ nextTest = FALSE
    /\ responsesClosed = FALSE
    /\ delivering = NoResponse
    /\ deliverPanicked = FALSE
    /\ latEndErr = "none"
    /\ testResult = 0
    /\ hubLatency = 0

LatencyInit == LatencyStateIn("new")

\* The nonce of the n-th ping: rng.Bytes gives every ping a fresh one.
NonceOf(n) == n

\* NewLatencyTestOp: createPingRequest, OpInit, start the handler.
NewLatencyTestOp(rngOK, initOK) ==
    /\ latPhase = "new"
    /\ ~rngOK => initOK
    /\ IF ~rngOK
       THEN /\ latPhase' = "failed"
            /\ UNCHANGED <<latRegistered, pingsSent, lastPingNonce>>
       ELSE /\ pingsSent' = pingsSent + 1
            /\ lastPingNonce' = NonceOf(pingsSent + 1)
            /\ latPhase' = IF initOK THEN "running" ELSE "failed"
            /\ latRegistered' = initOK
    /\ UNCHANGED <<measuredLatencies, nextTest, responsesClosed, delivering,
                   deliverPanicked, latEndErr, testResult, hubLatency>>
    /\ LatencyOnly

\* End: close(op.responses). A Deliver call that waits to hand over its
\* response then sends on a closed channel: it panics.
DeliverPanics(waiting) == waiting # NoResponse

EndWhileDelivering ==
    /\ deliverPanicked' = (deliverPanicked \/ DeliverPanics(delivering))
    /\ delivering' = NoResponse

\* The handler returns: the deferred op.t.OpEnd(op, returnErr) ends the op on
\* the terminal, which unregisters it and, unless the op was ended before,
\* calls its End.
HandlerReturns(returnErr) ==
    /\ latPhase' = "returned"
    /\ latEndErr' = returnErr
    /\ latRegistered' = FALSE
    /\ responsesClosed' = TRUE

\* handler, case <-ctx.Done() and case <-opTimeout: return with ErrStopping.
HandlerStopped ==
    /\ latPhase = "running"
    /\ HandlerReturns("ErrStopping")
    /\ EndWhileDelivering
    /\ UNCHANGED <<pingsSent, lastPingNonce, measuredLatencies, nextTest,
                   testResult, hubLatency>>
    /\ LatencyOnly

HandlerCtxDone == HandlerStopped


\* handler, nextTest = nil: the ping is sent, the pause timer is dropped.
NextTestKept(t) == t
NextTestCleared(t) == FALSE

\* handler, case <-nextTest: create the next ping and send it.
HandlerNextTest(rngOK, sendOK) ==
    /\ latPhase = "running"
    /\ nextTest
    /\ ~rngOK => sendOK
    /\ IF ~rngOK
       THEN /\ HandlerReturns("InternalError")
            /\ EndWhileDelivering
            /\ UNCHANGED <<pingsSent, lastPingNonce, nextTest>>
       ELSE /\ pingsSent' = pingsSent + 1
            /\ lastPingNonce' = NonceOf(pingsSent + 1)
            /\ IF sendOK
               THEN /\ nextTest' = NextTestCleared(nextTest)
                    /\ UNCHANGED <<latPhase, latEndErr, latRegistered,
                                   responsesClosed, delivering, deliverPanicked>>
               ELSE /\ HandlerReturns("SendFailed")
                    /\ EndWhileDelivering
                    /\ UNCHANGED nextTest
    /\ UNCHANGED <<measuredLatencies, testResult, hubLatency>>
    /\ LatencyOnly

\* The responses a peer sends: of either type, with the nonce of the latest
\* ping, of the ping before it, or without a nonce.
ResponsesNow ==
    { Response(t, n) : t \in {latencyPingRequest, latencyPingResponse},
                       n \in {0, NonceOf(pingsSent), NonceOf(pingsSent) - 1} }

\* Deliver, called by the terminal for a registered op with a message of the
\* peer: it waits to hand the message to the handler over op.responses.
\* (The nonce of a message of another type is not read and left empty. The
\* peer sends a response without a nonce while no ping is outstanding only
\* for the last MaxUnsolicited samples.)
LatencyDeliver(r) ==
    /\ latPhase = "running"
    /\ latRegistered
    /\ delivering = NoResponse
    /\ r.rType # latencyPingResponse => r.nonce = 0
    /\ (r.rType = latencyPingResponse /\ r.nonce = 0 /\ lastPingNonce = 0) =>
          Len(measuredLatencies) >= latencyTestRuns - MaxUnsolicited
    /\ delivering' = r
    /\ UNCHANGED <<latPhase, latRegistered, pingsSent, lastPingNonce,
                   measuredLatencies, nextTest, responsesClosed, deliverPanicked,
                   latEndErr, testResult, hubLatency>>
    /\ LatencyOnly

\* Deliver, case <-time.After(1 * time.Second): the handler did not take the
\* message, Deliver returns ErrTimeout.
LatencyDeliverTimeout ==
    /\ latPhase = "running"
    /\ delivering # NoResponse
    /\ delivering' = NoResponse
    /\ UNCHANGED <<latPhase, latRegistered, pingsSent, lastPingNonce,
                   measuredLatencies, nextTest, responsesClosed, deliverPanicked,
                   latEndErr, testResult, hubLatency>>
    /\ LatencyOnly

\* handleResponse: the error it returns, "nil" if the response is accepted.
HandleResponseError(r) ==
    IF r.rType # latencyPingResponse THEN "IncorrectUsage"
    ELSE IF r.nonce # lastPingNonce THEN "Integrity"
    ELSE "nil"

\* The lowest of the measured latencies, found as reportMeasuredLatencies
\* finds it: starting from lowest, keep every lower value.
RECURSIVE LowestLatencyFrom(_, _)
LowestLatencyFrom(lowest, latencies) ==
    IF latencies = <<>> THEN lowest
    ELSE LowestLatencyFrom(IF Head(latencies) < lowest THEN Head(latencies) ELSE lowest,
                           Tail(latencies))

LowestLatencyFirst(latencies) == Head(latencies)
LowestLatency(latencies) == LowestLatencyFrom(Hour, latencies)

\* Whether the handler has enough samples to report.
EnoughRunsOneEarly(n) == n >= latencyTestRuns - 1
EnoughRuns(n) == n >= latencyTestRuns

\* The error reportMeasuredLatencies returns on a terminal of the kind.
ReportError(kind) ==
    IF kind = "controllerNoHub" THEN "InternalError" ELSE "nil"

\* A handler that reports the samples it has when the timeout fires.
HandlerTimeoutReports ==
    /\ latPhase = "running"
    /\ HandlerReturns("nil")
    /\ EndWhileDelivering
    /\ testResult' = LowestLatencyFrom(Hour, measuredLatencies)
    /\ hubLatency' = testResult'
    /\ UNCHANGED <<pingsSent, lastPingNonce, measuredLatencies, nextTest>>
    /\ LatencyOnly
\* handler, case <-opTimeout.
HandlerTimeout == HandlerStopped

\* handler, case data := <-op.responses with the response r a Deliver call
\* hands over: handleResponse, then the report if there are enough samples,
\* else the next test is scheduled. rtt is time.Since(op.lastPingSentAt);
\* kind is the terminal the report finds. (An input the step does not read
\* is left at its first value.)
HandlerResponse(r, rtt, kind) ==
    /\ latPhase = "running"
    /\ ~responsesClosed
    /\ r # NoResponse
    /\ delivering = r
    /\ delivering' = NoResponse
    /\ HandleResponseError(r) # "nil" => rtt = 1
    /\ ~(/\ HandleResponseError(r) = "nil"
         /\ EnoughRuns(Len(measuredLatencies) + 1)) => kind = "controller"
    /\ IF HandleResponseError(r) # "nil"
       THEN /\ HandlerReturns(HandleResponseError(r))
            /\ UNCHANGED <<lastPingNonce, measuredLatencies, nextTest,
                           testResult, hubLatency>>
       ELSE /\ lastPingNonce' = 0
            /\ measuredLatencies' = Append(measuredLatencies, rtt)
            /\ IF EnoughRuns(Len(measuredLatencies'))
               THEN /\ testResult' = LowestLatency(measuredLatencies')
                    /\ hubLatency' = IF kind = "controller" THEN testResult'
                                     ELSE hubLatency
                    /\ HandlerReturns(ReportError(kind))
                    /\ UNCHANGED nextTest
               ELSE /\ nextTest' = TRUE
                    /\ UNCHANGED <<latPhase, latEndErr, latRegistered,
                                   responsesClosed, testResult, hubLatency>>
    /\ UNCHANGED <<pingsSent, deliverPanicked>>
    /\ LatencyOnly

\* End, called by the terminal for a registered op when the peer ended it,
\* between two messages: close(op.responses).
LatencyClientEnd ==
    /\ latPhase = "running"
    /\ latRegistered
    /\ delivering = NoResponse
    /\ responsesClosed' = TRUE
    /\ latRegistered' = FALSE
    /\ UNCHANGED <<latPhase, pingsSent, lastPingNonce, measuredLatencies,
                   nextTest, delivering, deliverPanicked, latEndErr, testResult,
                   hubLatency>>
    /\ LatencyOnly

\* handler, case data := <-op.responses with data == nil: the op ended.
HandlerResponsesClosed ==
    /\ latPhase = "running"
    /\ responsesClosed
    /\ HandlerReturns("ErrStopping")
    /\ UNCHANGED <<pingsSent, lastPingNonce, measuredLatencies, nextTest,
                   delivering, deliverPanicked, testResult, hubLatency>>
    /\ LatencyOnly

LatencyNext ==
    \/ \E rngOK, initOK \in BOOLEAN : NewLatencyTestOp(rngOK, initOK)
    \/ HandlerCtxDone
    \/ HandlerTimeout
    \/ \E rngOK, sendOK \in BOOLEAN : HandlerNextTest(rngOK, sendOK)
    \/ \E r \in ResponsesNow : LatencyDeliver(r)
    \/ LatencyDeliverTimeout
    \/ \E r \in ResponsesNow, rtt \in 1..MaxRTT, kind \in TerminalKinds :
          HandlerResponse(r, rtt, kind)
    \/ LatencyClientEnd
    \/ HandlerResponsesClosed

(***************************************************************************)
(* Claims about the latency test client operation.                         *)
(***************************************************************************)
\* The lowest element of a non-empty sequence of numbers.
MinOf(s) == CHOOSE m \in {s[i] : i \in 1..Len(s)} : \A i \in 1..Len(s) : m <= s[i]

\* The op reported: it found a lowest latency.
Reported == testResult # 0

\* C10: the latency client op reports only with exactly latencyTestRuns (10)
\* accepted samples, the result it reports is the lowest of those samples,
\* and a latency written to the connected hub is that result; before the
\* report nothing is written.
C10_ReportsMinOfTenSamples ==
    /\ Len(measuredLatencies) <= latencyTestRuns
    /\ Reported <=> Len(measuredLatencies) = latencyTestRuns
    /\ Reported => testResult = MinOf(measuredLatencies) /\ latPhase = "returned"
    /\ hubLatency # 0 => Reported /\ hubLatency = testResult /\ latEndErr = "nil"

\* Ten samples with the lowest in the middle were taken and the lowest was
\* written to the connected hub.
C10_Witness ==
    /\ Len(measuredLatencies) = latencyTestRuns
    /\ measuredLatencies[1] = MaxRTT
    /\ measuredLatencies[latencyTestRuns] = MaxRTT
    /\ hubLatency = 1
    /\ pingsSent = latencyTestRuns

\* The handler takes the response a Deliver call hands over.
ResponseHandled ==
    \E rtt \in 1..MaxRTT, kind \in TerminalKinds :
        HandlerResponse(delivering, rtt, kind)

\* The step ends the op with the error and records nothing.
EndsOpWith(err) ==
    /\ latPhase' = "returned"
    /\ latEndErr' = err
    /\ measuredLatencies' = measuredLatencies
    /\ testResult' = testResult
    /\ hubLatency' = hubLatency

\* C11: a handled response whose nonce differs from the nonce of the last
\* ping sent ends the op with Integrity, one of another type than the ping
\* response ends it with IncorrectUsage; neither records a sample nor writes
\* a latency to the connected hub.
C11_WrongResponseEndsOp ==
    [][ResponseHandled =>
          /\ delivering.rType # latencyPingResponse => EndsOpWith("IncorrectUsage")
          /\ (/\ delivering.rType = latencyPingResponse
              /\ delivering.nonce # NonceOf(pingsSent)) => EndsOpWith("Integrity")
       ]_vars

\* C12: the op does not outlive its timeout. The handler can take the
\* timeout whenever it runs, and it runs only with fewer than ten samples;
\* taking it ends the op with an error without a ping sent or a latency
\* written, and an op that has ended sends no ping and writes no latency.
C12_TimeoutEndsOpWithError ==
    /\ [](latPhase = "running" =>
            /\ Len(measuredLatencies) < latencyTestRuns
            /\ ENABLED HandlerTimeout)
    /\ [][HandlerTimeout =>
             /\ latPhase' = "returned"
             /\ latEndErr' \notin {"none", "nil"}
             /\ pingsSent' = pingsSent
             /\ testResult' = 0
             /\ hubLatency' = 0
          ]_vars
    /\ [][latPhase = "returned" =>
             /\ latPhase' = "returned"
             /\ latEndErr' = latEndErr
             /\ pingsSent' = pingsSent
             /\ hubLatency' = hubLatency
          ]_vars

\* The timeout fired while the tenth ping was outstanding.
C12_Witness ==
    /\ latPhase = "returned"
    /\ latEndErr = "ErrStopping"
    /\ Len(measuredLatencies) = latencyTestRuns - 1
    /\ pingsSent = latencyTestRuns
    /\ lastPingNonce = NonceOf(latencyTestRuns)
    /\ hubLatency = 0

\* C13: once the op has ended (End closed op.responses), a Deliver call
\* to it is a no-op: it does not panic.
C13_DeliverToEndedOpIsNoOp == responsesClosed => ~deliverPanicked

\* A ping is outstanding: sent and not answered by an accepted response.
PingOutstanding == lastPingNonce # 0

\* The step takes the handled response as a round trip sample.
SampleTaken == Len(measuredLatencies') = Len(measuredLatencies) + 1

\* C27: a handled ping response is taken as a sample only if a ping is
\* outstanding and the response carries exactly its nonce; a ping response
\* handled while no ping is outstanding, a replay or one with an empty
\* nonce, ends the op with Integrity; so there are never more samples than
\* pings sent.
C27_SampleOnlyForOutstandingPing ==
    /\ [](Len(measuredLatencies) <= pingsSent)
    /\ [][(ResponseHandled /\ delivering.rType = latencyPingResponse) =>
             /\ SampleTaken =>
                   PingOutstanding /\ delivering.nonce = NonceOf(pingsSent)
             /\ ~PingOutstanding => EndsOpWith("Integrity")
         ]_vars

\* The op has ended: with an error, on its timeout or cancellation, or with
\* its report.
LatencyOpEnded == latPhase \in {"returned", "failed"}

\* C28: at most latencyTestRuns (10) pings are sent and at most one is
\* outstanding: the first ping is sent by NewLatencyTestOp with OpInit, every
\* further ping by the running handler on the pause timer that an accepted
\* response to the previous ping scheduled; no ping is sent after the tenth
\* sample or once the op has ended.
C28_OnePingAtATimeAtMostTen ==
    /\ [](pingsSent <= latencyTestRuns)
    /\ [][pingsSent' # pingsSent =>
             /\ pingsSent' = pingsSent + 1
             /\ ~PingOutstanding
             /\ IF pingsSent = 0 THEN latPhase = "new"
                ELSE /\ latPhase = "running"
                     /\ nextTest
                     /\ Len(measuredLatencies) >= pingsSent
         ]_vars
    /\ [][(LatencyOpEnded \/ Len(measuredLatencies) >= latencyTestRuns) =>
             pingsSent' = pingsSent
         ]_vars

\* The tenth ping is outstanding after nine accepted responses.
C28_Witness ==
    /\ latPhase = "running"
    /\ pingsSent = latencyTestRuns
    /\ PingOutstanding
    /\ Len(measuredLatencies) = latencyTestRuns - 1
    /\ ~nextTest

(***************************************************************************)
(* Part 5. Route compliance under a routing profile                        *)
(* (src/navigator/routing-profiles.go). The exploration appends one hop    *)
(* after the other to a route that starts at the home hub and asks         *)
(* checkRouteCompliance about the route after every hop.                   *)
(***************************************************************************)
\* Profiles have 1 <= MinHops <= MaxHops <= MaxHopsLimit.
MaxHopsLimit == 4
\* MaxExtraHops and MaxExtraCost are 0..MaxExtra.
MaxExtra == 1
\* A hop adds 1..MaxHopCost to the cost of the route.
MaxHopCost == 2

RouteHubs == {"home", "a", "b"}

routeOk == "routeOk"
routeNonCompliant == "routeNonCompliant"
routeDisqualified == "routeDisqualified"

RoutingProfiles ==
    [MinHops : 1..MaxHopsLimit, MaxHops : 1..MaxHopsLimit,
     MaxExtraHops : 0..MaxExtra, MaxExtraCost : 0..MaxExtra]

\* The route is longer than the defined maximum.
TooLongNever(path) == FALSE
TooLong(path) == Len(path) > rp.MaxHops

\* The last hop is a hub that an earlier hop of the path is.
ReusesHub(path) ==
    /\ Len(path) >= 2
    /\ \E i \in 1..(Len(path) - 1) : path[i] = path[Len(path)]

\* The route is outside the optimization boundaries of the best found route.
OutsideBoundariesCostOnly(r, found) ==
    /\ Len(found) > 0
    /\ r.TotalCost > found[1].TotalCost + rp.MaxExtraCost
OutsideBoundaries(r, found) ==
    /\ Len(found) > 0
    /\ \/ r.TotalCost > found[1].TotalCost + rp.MaxExtraCost
       \/ Len(r.Path) > found[1].PathLen + rp.MaxExtraHops

checkRouteCompliance(r, found) ==
    IF Len(r.Path) < rp.MinHops THEN routeNonCompliant
    ELSE IF TooLong(r.Path) THEN routeDisqualified
    ELSE IF ReusesHub(r.Path) THEN routeDisqualified
    ELSE IF OutsideBoundaries(r, found) THEN routeDisqualified
    ELSE routeOk

\* The found routes are kept sorted by ascending total cost: the new route
\* goes before the first one that costs more.
RECURSIVE AddSorted(_, _)
AddSorted(found, r) ==
    IF found = <<>> THEN <<r>>
    ELSE IF r.TotalCost < Head(found).TotalCost THEN <<r>> \o found
    ELSE <<Head(found)>> \o AddSorted(Tail(found), r)

\* The exploration of a branch starts with the home hub as the only hop and
\* with what earlier branches found: nothing, or a route the profile allows,
\* at the cost of its hops.
RoutingInit ==
    /\ rp \in RoutingProfiles
    /\ rp.MinHops <= rp.MaxHops
    /\ route = [Path |-> <<"home">>, TotalCost |-> 0]
    /\ \/ foundRoutes = <<>>
       \/ \E n \in rp.MinHops..rp.MaxHops :
             \E c \in (n - 1)..((n - 1) * MaxHopCost) :
                 foundRoutes = <<[PathLen |-> n, TotalCost |-> c]>>
    /\ compliance = checkRouteCompliance(route, foundRoutes)
    /\ routeAdded = FALSE

\* A hop over a lane to another hub is appended to a route that is not
\* disqualified, and the route is checked.
ExploreHop(hub, cost) ==
    /\ compliance # routeDisqualified
    /\ hub # route.Path[Len(route.Path)]
    /\ route' = [Path |-> Append(route.Path, hub),
                 TotalCost |-> route.TotalCost + cost]
    /\ compliance' = checkRouteCompliance(route', foundRoutes)
    /\ routeAdded' = FALSE
    /\ UNCHANGED <<rp, foundRoutes>>
    /\ RoutingOnly

\* A compliant route that ends at a destination is added to the found routes.
AddFoundRoute ==
    /\ compliance = routeOk
    /\ ~routeAdded
    /\ foundRoutes' = AddSorted(foundRoutes, [PathLen |-> Len(route.Path),
                                              TotalCost |-> route.TotalCost])
    /\ routeAdded' = TRUE
    /\ UNCHANGED <<rp, route, compliance>>
    /\ RoutingOnly

RoutingNext ==
    \/ \E hub \in RouteHubs, cost \in 1..MaxHopCost : ExploreHop(hub, cost)
    \/ AddFoundRoute

(***************************************************************************)
(* Claims about route compliance.                                          *)
(***************************************************************************)
\* Some hub occurs twice in the path.
RepeatsHub(path) ==
    \E i, j \in 1..Len(path) : i < j /\ path[i] = path[j]

\* C14: a path in which some hub occurs twice is never classified routeOk,
\* whichever hop repeated the hub, for every profile with MinHops <= MaxHops.
C14_AcceptedRouteRepeatsNoHub ==
    compliance = routeOk => ~RepeatsHub(route.Path)

\* C15: a path longer than MaxHops is routeDisqualified, a path shorter than
\* MinHops is routeNonCompliant, and routeOk is only given to a path whose
\* length lies in [MinHops, MaxHops].
C15_LengthDecidesCompliance ==
    /\ Len(route.Path) > rp.MaxHops => compliance = routeDisqualified
    /\ Len(route.Path) < rp.MinHops => compliance = routeNonCompliant
    /\ compliance = routeOk => Len(route.Path) \in rp.MinHops..rp.MaxHops

\* A route of the default profile's length range was extended past MaxHops.
C15_Witness ==
    /\ rp.MinHops = 3
    /\ Len(route.Path) = rp.MaxHops + 1
    /\ ~RepeatsHub(SubSeq(route.Path, 1, 3))
    /\ compliance = routeDisqualified

\* The route is longer than the best found route allows.
ExceedsExtraHops ==
    /\ foundRoutes # <<>>
    /\ Len(route.Path) > foundRoutes[1].PathLen + rp.MaxExtraHops

\* The route costs more than the best found route allows.
ExceedsExtraCost ==
    /\ foundRoutes # <<>>
    /\ route.TotalCost > foundRoutes[1].TotalCost + rp.MaxExtraCost

\* The first found route is one of the lowest cost.
BestIsLowestCost ==
    \A i \in 1..Len(foundRoutes) :
        foundRoutes[1].TotalCost <= foundRoutes[i].TotalCost

\* With no route found, only the length and a re-used hub disqualify.
NoBoundWithoutFoundRoute ==
    (foundRoutes = <<>> /\ compliance = routeDisqualified) =>
        (TooLong(route.Path) \/ ReusesHub(route.Path))

\* C16 as stated: once a route is found, every explored route that is
\* longer than len(best.Path) + MaxExtraHops or costs more than
\* best.TotalCost + MaxExtraCost is routeDisqualified, best being the found
\* route of the lowest cost; with no route found, neither bound disqualifies.
C16_EveryRouteOutsideBoundariesDiscarded ==
    /\ BestIsLowestCost
    /\ (ExceedsExtraHops \/ ExceedsExtraCost) => compliance = routeDisqualified
    /\ NoBoundWithoutFoundRoute

\* C16, amended: the same for every explored route of at least MinHops hops.
C16_RouteOutsideBoundariesDiscardedFromMinHops ==
    /\ BestIsLowestCost
    /\ (/\ Len(route.Path) >= rp.MinHops
        /\ ExceedsExtraHops \/ ExceedsExtraCost) => compliance = routeDisqualified
    /\ NoBoundWithoutFoundRoute

\* A route within the profile's lengths and the cost bound, without a re-used
\* hub, is discarded for its extra hops.
C16_Witness ==
    /\ Len(route.Path) \in rp.MinHops..rp.MaxHops
    /\ ~RepeatsHub(route.Path)
    /\ ExceedsExtraHops
    /\ ~ExceedsExtraCost
    /\ Len(foundRoutes) = 2
    /\ compliance = routeDisqualified

(***************************************************************************)
(* Part 6. The navigator's map (src/navigator/routing-profiles.go, from    *)
(* line 118): RemoveHub, updateHub, updateHubLane and updateStates on a    *)
(* map that has its home pin. A hub is given to updateHub together with    *)
(* its status; the peer's lanes are read from the hub its pin holds.       *)
(* markReachable and recalculateReachableHubs are not in the source and    *)
(* do what the map's invariant says of them.                               *)
(***************************************************************************)
MapHubs == {"home", "a", "b"}
HomeHub == "home"

\* Lane latencies are in ns, capacities in bit/s.
minUnconfirmedLatency == 10000000
maxUnconfirmedCapacity == 100000000

\* What a status says of a lane: nothing measured, a latency below the
\* unconfirmed minimum with a capacity above the unconfirmed maximum, or a
\* latency above with a capacity below.
AdvertisedLanes ==
    { [Latency |-> 0, Capacity |-> 0],
      [Latency |-> 5000000, Capacity |-> 200000000],
      [Latency |-> 20000000, Capacity |-> 50000000] }

\* No lane to the peer: in a status, or in pin.ConnectedTo.
NoLane == [Latency |-> -1, Capacity |-> -1]
NoLanes == [p \in MapHubs |-> NoLane]

\* The lanes to other hubs in the statuses a hub is updated with.
Statuses(h) ==
    { st \in [MapHubs -> AdvertisedLanes \cup {NoLane}] : st[h] = NoLane }

MapInit ==
    /\ pins = {HomeHub}
    /\ pinStatus = [h \in MapHubs |-> NoLanes]
    /\ connectedTo = [h \in MapHubs |-> NoLanes]
    /\ reachable = {HomeHub}

\* updateHubLane: the combined latency is the greater value, at least the
\* unconfirmed minimum if a side has no data.
CombinedLatencyOfPeer(lane, peerLane) == peerLane.Latency
CombinedLatency(lane, peerLane) ==
    LET greater == IF peerLane.Latency > lane.Latency THEN peerLane.Latency
                   ELSE lane.Latency
    IN  IF /\ lane.Latency = 0 \/ peerLane.Latency = 0
           /\ greater < minUnconfirmedLatency
        THEN minUnconfirmedLatency
        ELSE greater

\* updateHubLane: the combined capacity is the lesser existing value, at most
\* the unconfirmed maximum if a side has no data.
CombinedCapacity(lane, peerLane) ==
    LET lesser == IF \/ lane.Capacity = 0
                     \/ peerLane.Capacity > 0 /\ peerLane.Capacity < lane.Capacity
                  THEN peerLane.Capacity
                  ELSE lane.Capacity
    IN  IF /\ lane.Capacity = 0 \/ peerLane.Capacity = 0
           /\ lesser > maxUnconfirmedCapacity
        THEN maxUnconfirmedCapacity
        ELSE lesser

CombinedLane(lane, peerLane) ==
    [Latency |-> CombinedLatency(lane, peerLane),
     Capacity |-> CombinedCapacity(lane, peerLane)]

\* updateHubLane, add Lane to both Pins: the lane put on the peer's pin has
\* the combined values too.
PeerLaneAsAdvertised(lane, peerLane) == peerLane
PeerLane(lane, peerLane) == CombinedLane(lane, peerLane)

\* The hubs that the lanes lead to from the hubs of S.
RECURSIVE ReachableFrom(_, _)
ReachableFrom(S, conn) ==
    LET next == S \cup { q \in MapHubs : \E p \in S : conn[p][q] # NoLane }
    IN  IF next = S THEN S ELSE ReachableFrom(next, conn)

\* recalculateReachableHubs: the pins the lanes lead to from the home pin.
RecalculatedReachable(conn) == ReachableFrom({HomeHub}, conn)

\* updateHub, 3. Update Lanes. Of the peers on the map that the status has a
\* lane to, those whose status has a lane back get the lane on both pins;
\* for the others updateHubLane abandons the lane on this pin.
LanePeers(h, status) ==
    { p \in pins \ {h} : status[p] # NoLane /\ pinStatus[p][h] # NoLane }
AbandonedPeers(h, status) ==
    { p \in pins \ {h} : status[p] # NoLane /\ pinStatus[p][h] = NoLane }
\* The lanes of the pin that stay inactive are removed from both pins.
InactivePeersNone(h, status) == {}
InactivePeers(h, status) ==
    { p \in MapHubs : connectedTo[h][p] # NoLane }
        \ (LanePeers(h, status) \cup AbandonedPeers(h, status))

LanesAfterUpdate(h, status) ==
    LET lanePeers == LanePeers(h, status)
        inactivePeers == InactivePeers(h, status)
    IN  [x \in MapHubs |-> [y \in MapHubs |->
            IF x = h /\ y \in lanePeers
                THEN CombinedLane(status[y], pinStatus[y][h])
            ELSE IF y = h /\ x \in lanePeers
                THEN PeerLane(status[x], pinStatus[x][h])
            ELSE IF x = h THEN NoLane
            ELSE IF y = h /\ x \in inactivePeers THEN NoLane
            ELSE connectedTo[x][y]]]

\* updateHubLane, check for reachability: a lane with a reachable end marks
\* the other end reachable, and with it what its lanes lead to.
MarkedReachable(h, status, conn) ==
    IF \E p \in LanePeers(h, status) : p \in reachable \/ h \in reachable
    THEN reachable \cup ReachableFrom({h}, conn)
    ELSE reachable

\* updateHub with a hub and its status. Without Info or Status it returns.
\* A lane of the hub to itself, which the status has if selfLane, is skipped.
updateHub(h, complete, status, selfLane) ==
    /\ ~complete => (status = NoLanes /\ ~selfLane)
    /\ IF ~complete
       THEN UNCHANGED mapVars
       ELSE /\ pins' = pins \cup {h}
            /\ pinStatus' = [pinStatus EXCEPT ![h] = status]
            /\ connectedTo' = LanesAfterUpdate(h, status)
            /\ reachable' = IF InactivePeers(h, status) # {}
                            THEN RecalculatedReachable(connectedTo')
                            ELSE MarkedReachable(h, status, connectedTo')

UpdateHub(h, complete, status, selfLane) ==
    /\ updateHub(h, complete, status, selfLane)
    /\ MapOnly

\* RemoveHub: the pin is removed from the map and its lanes from the peers.
\* StateReachable of the other pins is left as it is. (The map keeps its
\* home pin.)
ConnectedPeersNone(h) == {}
ConnectedPeers(h) == { x \in MapHubs : connectedTo[h][x] # NoLane }

RemovePin(h) ==
    /\ h \in pins
    /\ h # HomeHub
    /\ pins' = pins \ {h}
    /\ pinStatus' = [pinStatus EXCEPT ![h] = NoLanes]
    /\ connectedTo' = [x \in MapHubs |-> [y \in MapHubs |->
           IF x = h THEN NoLane
           ELSE IF y = h /\ x \in ConnectedPeers(h) THEN NoLane
           ELSE connectedTo[x][y]]]
    /\ reachable' = reachable \ {h}

RemoveHub(h) ==
    /\ RemovePin(h)
    /\ MapOnly

\* updateStates: StateReachable is recalculated.
recalculateReachableHubs ==
    /\ reachable' = RecalculatedReachable(connectedTo)
    /\ UNCHANGED <<pins, pinStatus, connectedTo>>

UpdateStates ==
    /\ recalculateReachableHubs
    /\ MapOnly

MapNext ==
    \/ \E h \in MapHubs, complete, selfLane \in BOOLEAN :
          \E status \in Statuses(h) : UpdateHub(h, complete, status, selfLane)
    \/ \E h \in MapHubs : RemoveHub(h)
    \/ UpdateStates

(***************************************************************************)
(* Claims about the map.                                                   *)
(***************************************************************************)
\* C17: a pin has StateReachable if and only if lanes lead from the home pin
\* to it.
C17_ReachableIffLanesFromHome ==
    \A p \in pins : p \in reachable <=> p \in ReachableFrom({HomeHub}, connectedTo)

\* There is a lane between the pins of A and B.
LaneBetween(A, B) == connectedTo[A][B] # NoLane /\ connectedTo[B][A] # NoLane

\* Both hubs are on the map and the status of each has a lane to the other.
BothAdvertise(A, B) ==
    /\ A \in pins
    /\ B \in pins
    /\ pinStatus[A][B] # NoLane
    /\ pinStatus[B][A] # NoLane

\* C18: a lane between pins A and B exists if and only if both hubs are on
\* the map and the current status of each advertises a lane to the other;
\* a lane is on both pins or on neither, and no pin has a lane to itself.
C18_LaneIffBothAdvertise ==
    \A A, B \in MapHubs :
        /\ A # B => (LaneBetween(A, B) <=> BothAdvertise(A, B))
        /\ A # B => (connectedTo[A][B] # NoLane <=> connectedTo[B][A] # NoLane)
        /\ connectedTo[A][A] = NoLane

\* a and b have a lane; home advertises a lane to a that a does not
\* advertise back, and there is none.
C18_Witness ==
    /\ LaneBetween("a", "b")
    /\ pinStatus["home"]["a"] # NoLane
    /\ pinStatus["a"]["home"] = NoLane
    /\ ~LaneBetween("home", "a")

Max2(x, y) == IF x > y THEN x ELSE y
Min2(x, y) == IF x < y THEN x ELSE y

\* The latency of a lane as stated: the maximum of the two advertised
\* latencies, at least 10 ms if either is 0.
StatedLatency(x, y) ==
    IF (x = 0 \/ y = 0) THEN Max2(Max2(x, y), minUnconfirmedLatency)
    ELSE Max2(x, y)

\* The capacity of a lane as stated: the minimum of the two advertised
\* capacities, a 0 on one side replaced by the other side's value, at most
\* 100 Mbit/s if either is 0.
StatedCapacity(x, y) ==
    IF x = 0 THEN Min2(y, maxUnconfirmedCapacity)
    ELSE IF y = 0 THEN Min2(x, maxUnconfirmedCapacity)
    ELSE Min2(x, y)

\* C19: every lane between A and B has, on both pins, the latency and the
\* capacity stated for what the current statuses of A and B advertise.
C19_LaneCombinesAdvertisedValues ==
    \A A, B \in MapHubs :
        connectedTo[A][B] # NoLane =>
            /\ connectedTo[A][B].Latency =
                   StatedLatency(pinStatus[A][B].Latency, pinStatus[B][A].Latency)
            /\ connectedTo[A][B].Capacity =
                   StatedCapacity(pinStatus[A][B].Capacity, pinStatus[B][A].Capacity)

\* One side has no data, the other a latency below the unconfirmed minimum
\* and a capacity above the unconfirmed maximum: the lane has the defaults.
C19_Witness ==
    /\ pinStatus["a"]["b"] = [Latency |-> 0, Capacity |-> 0]
    /\ pinStatus["b"]["a"] = [Latency |-> 5000000, Capacity |-> 200000000]
    /\ connectedTo["a"]["b"] = [Latency |-> minUnconfirmedLatency,
                                Capacity |-> maxUnconfirmedCapacity]
    /\ connectedTo["b"]["a"] = connectedTo["a"]["b"]

\* A step of updateHub that removes a lane: no pin leaves the map and a
\* lane is gone.
UpdateHubRemovesLane ==
    /\ pins \subseteq pins'
    /\ \E x, y \in MapHubs : connectedTo[x][y] # NoLane /\ connectedTo'[x][y] = NoLane

\* A step of RemoveHub: a pin leaves the map.
HubRemoved == pins' # pins /\ pins' \subseteq pins

\* C25: when updateHub removes a lane of the updated pin, StateReachable of
\* all pins is recalculated from the home pin before it returns; and
\* RemoveHub leaves no pin marked reachable that has lost its path to home.
C25_LaneRemovalRecalculatesReachability ==
    [][/\ UpdateHubRemovesLane =>
            reachable' = RecalculatedReachable(connectedTo')
       /\ HubRemoved =>
            \A p \in pins' :
                (/\ p \in RecalculatedReachable(connectedTo)
                 /\ p \notin RecalculatedReachable(connectedTo')) =>
                    p \notin reachable']_vars

\* C34: lanes are symmetric after every map operation: pin A has a lane to B
\* if and only if B has a lane to A, both lanes carry the same latency and
\* capacity (the cost is calculated from these two once and stored in both),
\* and no pin has a lane to itself.
C34_LanesSymmetric ==
    \A A, B \in MapHubs :
        /\ connectedTo[A][B] # NoLane <=> connectedTo[B][A] # NoLane
        /\ connectedTo[A][B].Latency = connectedTo[B][A].Latency
        /\ connectedTo[A][B].Capacity = connectedTo[B][A].Capacity
        /\ connectedTo[A][A] = NoLane

\* a and b advertise different measured values and have the lane with the
\* combined values on both pins; a advertises a lane to home as well, which
\* home does not have.
C34_Witness ==
    /\ pinStatus["a"]["b"] = [Latency |-> 5000000, Capacity |-> 200000000]
    /\ pinStatus["b"]["a"] = [Latency |-> 20000000, Capacity |-> 50000000]
    /\ connectedTo["a"]["b"] = [Latency |-> 20000000, Capacity |-> 50000000]
    /\ connectedTo["b"]["a"] = [Latency |-> 20000000, Capacity |-> 50000000]
    /\ pinStatus["a"]["home"] # NoLane
    /\ connectedTo["home"]["a"] = NoLane

(***************************************************************************)
(* Map.RemoveHub as its caller sees it: called with any id, with what it   *)
(* pushes to the subscriptions. The other map operations are those above.  *)
(***************************************************************************)
Call(id, pushed) == [id |-> id, pushed |-> pushed]
NoCall == Call("none", {})

RemoveInit == removeHubCall = NoCall

\* RemoveHub(id): an id without a pin returns at once; otherwise the pin and
\* its lanes are removed, the deleted pin is pushed and then the lane changes.
RemoveHubCalled(id) ==
    /\ id # HomeHub
    /\ IF id \in pins
       THEN /\ RemovePin(id)
            /\ removeHubCall' = Call(id, {"deleted pin", "pin changes"})
       ELSE /\ UNCHANGED mapVars
            /\ removeHubCall' = Call(id, {})
    /\ RemoveOnly

HubUpdated(h, status) ==
    /\ updateHub(h, TRUE, status, FALSE)
    /\ removeHubCall' = NoCall
    /\ RemoveOnly

StatesUpdated ==
    /\ recalculateReachableHubs
    /\ removeHubCall' = NoCall
    /\ RemoveOnly

RemoveNext ==
    \/ \E id \in MapHubs : RemoveHubCalled(id)
    \/ \E h \in MapHubs : \E status \in Statuses(h) : HubUpdated(h, status)
    \/ StatesUpdated

\* The last map operation was RemoveHub(id).
RemoveHubReturned(id) == removeHubCall.id = id

\* C35: after RemoveHub(id) the map has no pin with that id and no remaining
\* pin has a lane to it; RemoveHub of an id that is not on the map changes
\* nothing and pushes no update.
C35_RemoveHubRemovesPinAndLanes ==
    /\ [](\A id \in MapHubs : RemoveHubReturned(id) =>
            /\ id \notin pins
            /\ \A p \in MapHubs : connectedTo[p][id] = NoLane)
    /\ [][\A id \in MapHubs : (RemoveHubReturned(id)' /\ id \notin pins) =>
            /\ UNCHANGED mapVars
            /\ removeHubCall'.pushed = {}]_vars

\* RemoveHub("a") removed the pin of a and pushed it; b, which still
\* advertises a lane to a, has none to it.
C35_Witness ==
    /\ removeHubCall = Call("a", {"deleted pin", "pin changes"})
    /\ "b" \in pins
    /\ pinStatus["b"]["a"] # NoLane
    /\ connectedTo["b"]["a"] = NoLane
    /\ connectedTo["home"]["b"] # NoLane

(***************************************************************************)
(* Part 7. The import of hub announcements and statuses                    *)
(* (src/docks/hub_import.go, ImportAndVerifyHubInfo) for one hub.          *)
(* hub.ApplyAnnouncement, hub.ApplyStatus and Hub.Save are not in the      *)
(* source; they do what the specification says of hub records: a record    *)
(* is accepted when its timestamp strictly exceeds the stored one, a       *)
(* status that does not is refused with OldData, and nothing is stored     *)
(* before Save. verifyHubIP launches a ship and a crane for every IP of    *)
(* the hub and stops the crane when it returns.                            *)
(***************************************************************************)
\* Announcements and statuses have the timestamps 1..MaxTimestamp.
MaxTimestamp == 2
\* The calls of ImportAndVerifyHubInfo that are followed.
MaxImports == 2

\* A hub by the timestamps of its Info and Status, 0 for none, and
\* VerifiedIPs.
Hub(infoTS, statusTS, verified) ==
    [infoTS |-> infoTS, statusTS |-> statusTS, verified |-> verified]
NoHub == Hub(0, 0, FALSE)

\* What a call returns (the error by its id and the error it wraps), with
\* its arguments (0 for nil data) and the hub in the database after it.
ImportCall(ann, st, h, forward, err, stored) ==
    [ann |-> ann, st |-> st, h |-> h, forward |-> forward, err |-> err.id,
     cause |-> err.cause, stored |-> stored]

\* A terminal error with the error it wraps, and the errors of package hub,
\* which wrap none.
TerminalError(id, cause) == [id |-> id, cause |-> cause]
HubError(id) == TerminalError(id, "nil")
NoError == HubError("nil")
NoImport == ImportCall(0, 0, NoHub, FALSE, HubError("none"), NoHub)

\* What is kept of the call before the last: its status, what it returned,
\* the hub in the database after it, and whether the last call had the same
\* announcement and status.
PreviousCall(call, ann, st) ==
    [same |-> call # NoImport /\ call.ann = ann /\ call.st = st,
     st |-> call.st, forward |-> call.forward, err |-> call.err,
     stored |-> call.stored]

\* The raw messages saved, by their timestamps, 0 for none.
RawHubMsgs(ann, st) == [announcement |-> ann, status |-> st]

\* The outcomes of verifyHubIP: the ship cannot be launched, the crane cannot
\* be created, the connected hub fails the verification, or it is verified
\* (whether or not the connection can then be ended, which is only logged).
VerifyOutcomes == {"launchFailed", "craneFailed", "verifyFailed", "ok"}

\* The crane is stopped when verifyHubIP returns, if it was created.
CraneStoppedOnSuccess(outcome) == IF outcome = "ok" THEN 1 ELSE 0
CraneStopped(outcome) == IF outcome \in {"verifyFailed", "ok"} THEN 1 ELSE 0

\* verifyHubIP: the ships launched and the cranes created and stopped.
\* Crane.Stop is not in the source; it sinks the ship of the crane.
Verification(failed, launched, created, stopped, sunk) ==
    [failed |-> failed, launched |-> launched, created |-> created,
     stopped |-> stopped, sunk |-> sunk]
NoVerification == Verification(FALSE, 0, 0, 0, 0)
verifyHubIP(outcome) ==
    Verification(outcome # "ok",
                 IF outcome = "launchFailed" THEN 0 ELSE 1,
                 IF outcome \in {"verifyFailed", "ok"} THEN 1 ELSE 0,
                 CraneStopped(outcome),
                 CraneStopped(outcome))

\* The verification of the hub's IPs: IPv4 or IPv6 (ips = 1), or IPv4 and,
\* if it is verified, IPv6 (ips = 2).
VerifyFirstIP(ips, outcomes) == verifyHubIP(outcomes[1])
VerifyIPs(ips, outcomes) ==
    LET first == verifyHubIP(outcomes[1])
        second == verifyHubIP(outcomes[2])
    IN  IF ips = 1 \/ first.failed THEN first
        ELSE Verification(second.failed,
                          first.launched + second.launched,
                          first.created + second.created,
                          first.stopped + second.stopped,
                          first.sunk + second.sunk)

\* The hubs the database can hold: saved with an announcement, with or
\* without a status, and verified if this is a public hub.
SavedHubs ==
    {NoHub} \cup { Hub(a, s, v) : a \in 1..MaxTimestamp, s \in 0..MaxTimestamp,
                                  v \in BOOLEAN }

ImportInit ==
    /\ importPublicHub \in BOOLEAN
    /\ hubDB \in SavedHubs
    /\ hubDB # NoHub => hubDB.verified = importPublicHub
    /\ prevImport = PreviousCall(NoImport, 0, 0)
    /\ lastImport = NoImport
    /\ imports = 0
    /\ lastVerify = NoVerification
    /\ hubMsgs = RawHubMsgs(hubDB.infoTS, hubDB.statusTS)

\* What an Apply function returns.
Applied(h, forward, err) == [h |-> h, forward |-> forward, err |-> err]

\* hub.ApplyAnnouncement(nil, data, ...): the hub is looked up in the
\* database; a new hub or a newer announcement is to be forwarded. An
\* announcement that is not newer is not applied, with or without an error.
ApplyAnnouncement(ann, replayIsError) ==
    IF hubDB = NoHub THEN Applied(Hub(ann, 0, FALSE), TRUE, NoError)
    ELSE IF ann > hubDB.infoTS
        THEN Applied([hubDB EXCEPT !.infoTS = ann], TRUE, NoError)
    ELSE Applied(hubDB, FALSE,
                 IF replayIsError THEN HubError("ErrOldData") ELSE NoError)

\* hub.ApplyStatus(h, data, ...): on the given hub, or on the one looked up
\* in the database if none is given. A status that is not newer is refused.
ApplyStatus(h, st) ==
    LET existing == IF h = NoHub THEN hubDB ELSE h
    IN  IF existing = NoHub THEN Applied(NoHub, FALSE, HubError("ErrMissingInfo"))
        ELSE IF st > existing.statusTS
            THEN Applied([existing EXCEPT !.statusTS = st], TRUE, NoError)
        ELSE Applied(existing, FALSE, HubError("ErrOldData"))

\* forward is set if the announcement or the status is to be forwarded.
ForwardAlways(a, b) == TRUE
ForwardParts(a, b) == a.forward \/ b.forward

\* The status was not applied: the import returns.
StatusFailedNever(b) == FALSE
StatusFailed(b) == b.err # NoError

\* ImportAndVerifyHubInfo up to the check of the hub ID: what it has applied,
\* whether to forward, and the error if it returns there.
ImportApplied(ann, st, idMatches, replayIsError) ==
    LET a == IF ann # 0 THEN ApplyAnnouncement(ann, replayIsError)
             ELSE Applied(NoHub, FALSE, NoError)
        b == IF st # 0 THEN ApplyStatus(a.h, st) ELSE Applied(a.h, FALSE, NoError)
    IN  IF ann = 0 /\ st = 0
            THEN Applied(NoHub, FALSE, TerminalError("ErrInternalError", "nil"))
        ELSE IF a.err # NoError
            THEN Applied(a.h, FALSE, TerminalError("ErrInternalError", a.err.id))
        ELSE IF StatusFailed(b)
            THEN Applied(b.h, FALSE, TerminalError("ErrInternalError", b.err.id))
        ELSE IF ~idMatches
            THEN Applied(NoHub, FALSE, TerminalError("ErrInternalError", "nil"))
        ELSE Applied(b.h, ForwardParts(a, b), NoError)

\* Verify hub if not yet verified.
NeedsVerification(h) == ~h.verified /\ importPublicHub

\* Save the raw messages to the database: those given. (A raw message that
\* cannot be saved is only logged; the saves are followed as succeeding.)
RawMsgsSaved(ann, st) ==
    RawHubMsgs(IF ann # 0 THEN ann ELSE hubMsgs.announcement,
               IF st # 0 THEN st ELSE hubMsgs.status)

\* ImportAndVerifyHubInfo.
ImportAndVerifyHubInfo(ann, st, idMatches, replayIsError, ips, outcomes, saveOK) ==
    LET applied == ImportApplied(ann, st, idMatches, replayIsError)
        verifies == applied.err = NoError /\ NeedsVerification(applied.h)
        verification == IF verifies THEN VerifyIPs(ips, outcomes)
                        ELSE NoVerification
        verified == [applied.h EXCEPT !.verified = @ \/ verifies]
        saved == applied.err = NoError /\ ~verification.failed /\ saveOK
        returned ==
            IF applied.err # NoError
                THEN ImportCall(ann, st, applied.h, FALSE, applied.err, hubDB)
            ELSE IF verification.failed
                THEN ImportCall(ann, st, NoHub, applied.forward,
                                TerminalError("ErrIntegrity", "verifyHubIP"), hubDB)
            ELSE IF ~saveOK
                THEN ImportCall(ann, st, NoHub, applied.forward,
                                TerminalError("ErrInternalError", "Save"), hubDB)
            ELSE ImportCall(ann, st, verified, applied.forward, NoError, verified)
    IN  /\ imports < MaxImports
        /\ imports' = imports + 1
        /\ prevImport' = PreviousCall(lastImport, ann, st)
        /\ lastImport' = returned
        /\ hubDB' = returned.stored
        /\ hubMsgs' = IF saved THEN RawMsgsSaved(ann, st) ELSE hubMsgs
        /\ lastVerify' = verification
        /\ UNCHANGED importPublicHub
        /\ ImportOnly

\* The outcomes a call can meet; what it does not get to is left at its first
\* value.
ReplayOutcomes(ann) ==
    IF ann = 0 \/ hubDB = NoHub \/ ann > hubDB.infoTS THEN {TRUE} ELSE BOOLEAN
IDOutcomes(ann, st, replayIsError) ==
    IF ImportApplied(ann, st, TRUE, replayIsError).err # NoError
        THEN {TRUE} ELSE BOOLEAN
IPOutcomes(ann, st, idMatches, replayIsError) ==
    LET applied == ImportApplied(ann, st, idMatches, replayIsError)
    IN  IF applied.err = NoError /\ NeedsVerification(applied.h)
            THEN { <<1, <<o, "ok">> >> : o \in VerifyOutcomes }
                 \cup { <<2, <<o, "ok">> >> : o \in VerifyOutcomes \ {"ok"} }
                 \cup { <<2, <<"ok", o>> >> : o \in VerifyOutcomes }
        ELSE { <<1, <<"ok", "ok">> >> }
SaveOutcomes(ann, st, idMatches, replayIsError, ips, outcomes) ==
    LET applied == ImportApplied(ann, st, idMatches, replayIsError)
    IN  IF \/ applied.err # NoError
           \/ NeedsVerification(applied.h) /\ VerifyIPs(ips, outcomes).failed
            THEN {TRUE} ELSE BOOLEAN

ImportNext ==
    \E ann, st \in 0..MaxTimestamp :
      \E replayIsError \in ReplayOutcomes(ann) :
        \E idMatches \in IDOutcomes(ann, st, replayIsError) :
          \E v \in IPOutcomes(ann, st, idMatches, replayIsError) :
            \E saveOK \in SaveOutcomes(ann, st, idMatches, replayIsError, v[1], v[2]) :
              ImportAndVerifyHubInfo(ann, st, idMatches, replayIsError,
                                     v[1], v[2], saveOK)

(***************************************************************************)
(* Claims about the import of hub records.                                 *)
(***************************************************************************)
\* The last two calls had the same announcement and status.
SameTwice ==
    /\ imports >= 2
    /\ prevImport.same

OlderStatusImported ==
    /\ lastImport.err = "nil"
    /\ lastImport.st >= 2
    /\ hubMsgs.status = lastImport.st
    /\ imports' = imports + 1
    /\ lastImport'.st = lastImport.st - 1

C22_VerificationCraneAlwaysStopped ==
    /\ [](/\ lastVerify.failed <=> lastImport.err = "ErrIntegrity"
          /\ lastVerify.failed => importPublicHub /\ lastImport.h = NoHub
          /\ lastVerify.stopped = lastVerify.created
          /\ lastVerify.sunk = lastVerify.created)
    /\ [][(imports' = imports + 1 /\ lastVerify'.failed) =>
              hubDB' = hubDB /\ hubMsgs' = hubMsgs]_vars

\* IPv4 was verified, the verification of IPv6 failed at VerifyConnectedHub,
\* and both cranes were stopped.
C22_Witness ==
    /\ lastImport.err = "ErrIntegrity"
    /\ lastVerify.failed
    /\ lastVerify.created = 2
    /\ lastVerify.stopped = 2
    /\ lastVerify.sunk = 2

\* C31: whenever ImportAndVerifyHubInfo returns an error (missing input,
\* failed application of the announcement or the status, hub ID mismatch,
\* failed IP verification or failed persistence) it returns forward=false.
C31_ErrorNeverForwards ==
    (imports > 0 /\ lastImport.err # "nil") => ~lastImport.forward

\* This step is a call with these outcomes.
ImportedWith(idMatches, replayIsError, ips, outcomes, saveOK) ==
    ImportAndVerifyHubInfo(lastImport'.ann, lastImport'.st, idMatches,
                           replayIsError, ips, outcomes, saveOK)

\* The outcomes of the verifications of a hub with one or two addresses; the
\* second address is verified only after the first.
AddressOutcomes ==
    { <<1, <<o, "ok">> >> : o \in VerifyOutcomes }
        \cup { <<2, <<o, "ok">> >> : o \in VerifyOutcomes \ {"ok"} }
        \cup { <<2, <<"ok", o>> >> : o \in VerifyOutcomes }

\* The call returns because the supplied hub ID does not match.
HubMismatch ==
    /\ lastImport'.err = "ErrInternalError"
    /\ lastImport'.cause = "nil"
    /\ lastImport'.ann # 0 \/ lastImport'.st # 0

\* C32: on a public hub, a hub that is not yet verified is marked
\* VerifiedIPs and saved only by a call in which the verification of every
\* address it advertises succeeded and the hub ID matched, and it is not
\* saved unverified; a call in which a verification fails or the supplied
\* hub ID does not match returns no verified hub and leaves the database
\* and the raw messages as they are.
C32_VerifiedAndSavedOnlyAfterEveryIP ==
    [][imports' = imports + 1 =>
         /\ (importPublicHub /\ ~hubDB.verified /\ hubDB' # hubDB) =>
                 /\ hubDB'.verified
                 /\ \A idMatches, replayIsError \in BOOLEAN :
                       \A v \in AddressOutcomes :
                          ImportedWith(idMatches, replayIsError, v[1], v[2], TRUE)
                              => /\ idMatches
                                 /\ \A i \in 1..v[1] : v[2][i] = "ok"
         /\ (lastVerify'.failed \/ HubMismatch) =>
                 /\ lastImport'.h = NoHub
                 /\ hubDB' = hubDB
                 /\ hubMsgs' = hubMsgs
    ]_vars

\* A new hub with two addresses was verified on both, marked and saved with
\* its raw messages.
C32_Witness ==
    /\ imports = 1
    /\ importPublicHub
    /\ lastImport.err = "nil"
    /\ lastImport.h.verified
    /\ hubDB = Hub(1, 1, TRUE)
    /\ hubMsgs = RawHubMsgs(1, 1)
    /\ ~lastVerify.failed
    /\ lastVerify.created = 2

(***************************************************************************)
(* Part 8. The deletion of hubs by the periodic update of the pin states   *)
(* (src/navigator/routing-profiles.go, Map.updateStates, lines 542-584;    *)
(* the recalculation of StateReachable that ends it is UpdateStates of     *)
(* Part 6). Hub.Obsolete, the map's intel, updateActiveHubs and            *)
(* hub.RemoveHubAndMsgs are not in the source: what they answer is an      *)
(* input, and a deleted hub is removed from the map by the database hook   *)
(* (UpdateHook.PrePut, RemoveHub).                                         *)
(***************************************************************************)
GCHubs == {"a", "b"}

\* What updateStates reads of a pin.
PinState(active, obsolete, discontinued) ==
    [active |-> active, obsolete |-> obsolete, discontinued |-> discontinued]

GCInit ==
    /\ gcPins = {}
    /\ gcState = [h \in GCHubs |-> PinState(FALSE, FALSE, FALSE)]
    /\ gcToDelete = <<>>
    /\ gcWorkers = {}
    /\ gcStarted = <<>>

\* updateHub: the pin is created if the map has none, and StateActive is set
\* from the age of the status.
GCUpdateHub(h, active) ==
    /\ gcPins' = gcPins \cup {h}
    /\ gcState' = [gcState EXCEPT ![h].active = active]
    /\ UNCHANGED <<gcToDelete, gcWorkers, gcStarted>>
    /\ GCOnly

\* Time passes, or the intel data is updated: what Hub.Obsolete and
\* m.intel.Hubs answer for a hub changes.
HubChanges(h, obsolete, discontinued) ==
    /\ <<obsolete, discontinued>> # <<gcState[h].obsolete, gcState[h].discontinued>>
    /\ gcState' = [gcState EXCEPT ![h].obsolete = obsolete,
                                  ![h].discontinued = discontinued]
    /\ UNCHANGED <<gcPins, gcToDelete, gcWorkers, gcStarted>>
    /\ GCOnly

\* Check for obsoleted Hubs.
ObsoletedIgnoringActive(p) == gcState[p].obsolete
Obsoleted(p) == ~gcState[p].active /\ gcState[p].obsolete

\* The loop of updateStates over the pins in the order the map yields them,
\* from pin i on: toDelete, and for every worker started the length of
\* toDelete at its start. The pass of a discontinued hub starts no worker.
RECURSIVE PinLoop(_, _, _, _)
PinLoop(order, i, toDelete, started) ==
    IF i > Len(order) THEN [toDelete |-> toDelete, started |-> started]
    ELSE IF gcState[order[i]].discontinued
        THEN PinLoop(order, i + 1, Append(toDelete, order[i]), started)
    ELSE LET next == IF Obsoleted(order[i]) THEN Append(toDelete, order[i])
                     ELSE toDelete
         IN  PinLoop(order, i + 1, next,
                     IF Len(next) > 0 THEN Append(started, Len(next))
                     ELSE started)

\* The orders in which the pins of the map can be ranged over.
PinOrders ==
    { o \in [1..Cardinality(gcPins) -> gcPins] :
        \A i, j \in DOMAIN o : i # j => o[i] # o[j] }

Hubs(toDelete) == { toDelete[i] : i \in DOMAIN toDelete }
FirstOf(toDelete, n) == { toDelete[i] : i \in 1..n }

\* What the workers started can find in toDelete, which they share with the
\* loop: each what was appended up to its start, or more of it.
WorkerViews(loop) ==
    { { FirstOf(loop.toDelete, seen[w]) : w \in DOMAIN loop.started } :
        seen \in { f \in [DOMAIN loop.started -> 0..Len(loop.toDelete)] :
                     \A w \in DOMAIN loop.started : f[w] >= loop.started[w] } }

\* updateStates: the loop, and then StateActive of every pin is updated.
updateStates(order, views, newActive) ==
    /\ gcToDelete' = PinLoop(order, 1, <<>>, <<>>).toDelete
    /\ gcStarted' = PinLoop(order, 1, <<>>, <<>>).started
    /\ gcWorkers' = gcWorkers \cup views
    /\ gcState' = [h \in GCHubs |->
                      IF h \in gcPins
                      THEN [gcState[h] EXCEPT !.active = h \in newActive]
                      ELSE gcState[h]]
    /\ UNCHANGED gcPins
    /\ GCOnly

\* A "delete hubs" worker: RemoveHubAndMsgs for every hub it finds in
\* toDelete; a failure is logged. The hubs deleted leave the map.
DeleteHubs(view, deleted) ==
    /\ view \in gcWorkers
    /\ deleted \subseteq view
    /\ gcWorkers' = gcWorkers \ {view}
    /\ gcPins' = gcPins \ deleted
    /\ gcState' = [h \in GCHubs |->
                      IF h \in deleted /\ h \in gcPins
                      THEN [gcState[h] EXCEPT !.active = FALSE]
                      ELSE gcState[h]]
    /\ UNCHANGED <<gcToDelete, gcStarted>>
    /\ GCOnly

UpdateStatesRuns ==
    \E order \in PinOrders :
        \E views \in WorkerViews(PinLoop(order, 1, <<>>, <<>>)),
           newActive \in SUBSET gcPins :
            updateStates(order, views, newActive)

GCNext ==
    \/ \E h \in GCHubs, active \in BOOLEAN : GCUpdateHub(h, active)
    \/ \E h \in GCHubs, obsolete, discontinued \in BOOLEAN :
          HubChanges(h, obsolete, discontinued)
    \/ UpdateStatesRuns
    \/ \E view \in gcWorkers : \E deleted \in SUBSET view : DeleteHubs(view, deleted)

(***************************************************************************)
(* Claims about the deletion of hubs.                                      *)
(***************************************************************************)
\* C23: updateStates schedules a hub for deletion only if intel marks it
\* discontinued, or it is obsolete and its pin has not StateActive (a pin
\* with StateActive that is not discontinued is never scheduled); the
\* workers find only scheduled hubs, and only they take a hub off the map.
C23_ActivePinNeverScheduled ==
    /\ [][UpdateStatesRuns =>
            /\ \A p \in Hubs(gcToDelete') :
                  /\ p \in gcPins
                  /\ \/ gcState[p].discontinued
                     \/ ~gcState[p].active /\ gcState[p].obsolete
            /\ \A view \in gcWorkers' \ gcWorkers : view \subseteq Hubs(gcToDelete')]_vars
    /\ [][\A p \in gcPins \ gcPins' : \E view \in gcWorkers : p \in view]_vars

\* a is discontinued and scheduled, with a worker to delete it; b is
\* obsolete, but its pin has StateActive, and it is not scheduled.
C23_Witness ==
    /\ gcToDelete = <<"a">>
    /\ {"a"} \in gcWorkers
    /\ gcState["a"].discontinued
    /\ gcPins = {"a", "b"}
    /\ gcState["b"].obsolete
    /\ gcState["b"].active
    /\ ~gcState["b"].discontinued

\* The workers of the last run of updateStates that delete the i-th hub
\* selected: those started when toDelete had it already.
DeletingWorkers(i) == { w \in DOMAIN gcStarted : gcStarted[w] >= i }

\* C40: in one run of updateStates every hub selected for deletion is
\* removed exactly once and at most one deletion worker is started. (The
\* workers run on their own, after StartWorker: a step of a worker is never
\* part of the step of updateStates that holds the map lock.)
C40_OneWorkerDeletesEachHubOnce ==
    /\ Len(gcStarted) <= 1
    /\ \A i \in DOMAIN gcToDelete : Cardinality(DeletingWorkers(i)) = 1

(***************************************************************************)
(* Part 9. The load a public hub publishes in its status                   *)
(* (src/captain/public.go, maintainPublicStatus, lines 176-204). The load  *)
(* average is a float; it is counted in hundredths here. The load is       *)
(* followed up to where it is handed to Identity.MaintainStatus, which is  *)
(* not in the source.                                                      *)
(***************************************************************************)
\* The greatest load average followed, in hundredths.
MaxLoadAvg == 120

LoadAvg(ok, avg) == [ok |-> ok, avg |-> avg]

\* The load averages metrics.LoadAvg15 can answer: none, or a value.
LoadAvgs == {LoadAvg(FALSE, 0)} \cup { LoadAvg(TRUE, a) : a \in 0..MaxLoadAvg }

StatusInit ==
    /\ loadAvg15 \in LoadAvgs
    /\ statusLoad = 0

\* Get system load and convert to fixed steps.
FixedStep(l) ==
    IF ~l.ok THEN -1
    ELSE IF l.avg >= 100 THEN 100
    ELSE IF l.avg >= 95 THEN 95
    ELSE IF l.avg >= 80 THEN 80
    ELSE 0

\* The system load changes.
LoadChanges(l) ==
    /\ l # loadAvg15
    /\ loadAvg15' = l
    /\ UNCHANGED statusLoad
    /\ StatusOnly

\* maintainPublicStatus: the status is maintained with the new load.
maintainPublicStatus ==
    /\ statusLoad' = FixedStep(loadAvg15)
    /\ UNCHANGED loadAvg15
    /\ StatusOnly

StatusNext ==
    \/ \E l \in LoadAvgs : LoadChanges(l)
    \/ maintainPublicStatus

(***************************************************************************)
(* Claims about the published status.                                      *)
(***************************************************************************)
\* C24: the load a hub publishes in its own status is always within 0-100,
\* whatever the load average is and also when it is unavailable.
C24_PublishedLoadWithinRange == statusLoad \in 0..100

(***************************************************************************)
(* Part 10. The route search with and without the optimization bounds      *)
(* (src/navigator/routing-profiles.go, RoutingProfile and                  *)
(* checkRouteCompliance). The search is a depth-first traversal from the   *)
(* home hub that extends the route over every lane to a hub that is not on *)
(* the route, in any order, asks checkRouteCompliance about every route    *)
(* and does not extend a disqualified one. Next to it runs the same        *)
(* traversal without the MaxExtraHops and MaxExtraCost bounds: it asks     *)
(* checkRouteCompliance with no found route.                               *)
(***************************************************************************)
\* A lane costs 1..MaxLaneCost.
MaxLaneCost == 3

\* The hub the routes are searched to.
Destination == "b"

LanePairs == {pair \in SUBSET RouteHubs : Cardinality(pair) = 2}

OnPath(hub, path) == \E i \in 1..Len(path) : path[i] = hub

\* The hubs the route is extended to from its last hop.
Peers(path) ==
    {p \in RouteHubs : /\ ~OnPath(p, path)
                       /\ lanes[{path[Len(path)], p}] > 0}

\* The accumulated cost of a path.
RECURSIVE PathCost(_)
PathCost(path) ==
    IF Len(path) < 2 THEN 0
    ELSE PathCost(SubSeq(path, 1, Len(path) - 1))
             + lanes[{path[Len(path) - 1], path[Len(path)]}]

FoundRoute(r) == [PathLen |-> Len(r.Path), TotalCost |-> r.TotalCost]

SearchInit ==
    /\ rp \in RoutingProfiles
    /\ rp.MinHops <= rp.MaxHops
    /\ lanes \in [LanePairs -> 0..MaxLaneCost]
    /\ route = [Path |-> <<"home">>, TotalCost |-> 0]
    /\ foundRoutes = <<>>
    /\ foundUnbounded = <<>>
    /\ compliance = checkRouteCompliance(route, foundRoutes)
    /\ routeAdded = FALSE
    /\ agenda = <<Peers(route.Path)>>
    /\ skippedFrom = 0

\* The route is extended to a peer of its last hop and checked. A compliant
\* route to the destination is added to the found routes; a disqualified
\* route is not extended. Where only the two bounds disqualify the route, the
\* search without them goes on alone.
Explore(hub) ==
    /\ agenda # <<>>
    /\ hub \in agenda[Len(agenda)]
    /\ LET path == Append(route.Path, hub)
           r == [Path |-> path, TotalCost |-> PathCost(path)]
           unbounded == checkRouteCompliance(r, <<>>)
           bounded == checkRouteCompliance(r, foundRoutes)
           reached == hub = Destination
       IN  /\ route' = r
           /\ agenda' = Append([agenda EXCEPT ![Len(agenda)] = @ \ {hub}],
                               IF unbounded = routeDisqualified THEN {}
                               ELSE Peers(path))
           /\ foundUnbounded' =
                  IF reached /\ unbounded = routeOk
                  THEN AddSorted(foundUnbounded, FoundRoute(r))
                  ELSE foundUnbounded
           /\ IF skippedFrom > 0
              THEN UNCHANGED <<foundRoutes, compliance, skippedFrom>>
              ELSE /\ compliance' = bounded
                   /\ foundRoutes' =
                          IF reached /\ bounded = routeOk
                          THEN AddSorted(foundRoutes, FoundRoute(r))
                          ELSE foundRoutes
                   /\ skippedFrom' =
                          IF bounded = routeDisqualified
                             /\ unbounded # routeDisqualified
                          THEN Len(path) ELSE 0
    /\ UNCHANGED <<rp, routeAdded, lanes>>
    /\ SearchOnly

\* Every peer of the last hop is explored: the search returns to the hop
\* before it.
Return ==
    /\ agenda # <<>>
    /\ agenda[Len(agenda)] = {}
    /\ agenda' = SubSeq(agenda, 1, Len(agenda) - 1)
    /\ route' = IF Len(route.Path) = 1 THEN route
                ELSE LET path == SubSeq(route.Path, 1, Len(route.Path) - 1)
                     IN  [Path |-> path, TotalCost |-> PathCost(path)]
    /\ skippedFrom' = IF skippedFrom = Len(route.Path) THEN 0 ELSE skippedFrom
    /\ UNCHANGED <<rp, foundRoutes, foundUnbounded, compliance, routeAdded,
                   lanes>>
    /\ SearchOnly

SearchNext ==
    \/ \E hub \in RouteHubs : Explore(hub)
    \/ Return

(***************************************************************************)
(* Claims about the route search.                                          *)
(***************************************************************************)
\* The cost of the lowest-cost found route, -1 with no route found.
BestCost(found) == IF found = <<>> THEN -1 ELSE found[1].TotalCost

SearchDone == agenda = <<>>

\* C26: for every graph and every exploration order, the lowest-cost
\* compliant route found by the search that prunes with
\* checkRouteCompliance has the same total cost as the lowest-cost compliant
\* route found without the MaxExtraHops and MaxExtraCost bounds.
C26_PruningKeepsBestRoute ==
    SearchDone => BestCost(foundRoutes) = BestCost(foundUnbounded)

(***************************************************************************)
(* Part 11. The teardown of an expand op under concurrent callers           *)
(* (src/docks/hub_import.go, ExpandOp.Abandon, ExpandOp.End and            *)
(* ExpansionRelayTerminal.Abandon). Every caller runs its call one         *)
(* statement at a time. opTerminal.OpEnd may call the op's End and         *)
(* crane.AbandonTerminal may call the relay terminal's Abandon before they *)
(* return.                                                                 *)
(***************************************************************************)
MaxCallers == 2
\* The calls the callers make.
MaxCalls == 3

Callers == 1..MaxCallers

TeardownCalls == {"End", "Abandon", "RelayAbandon"}

\* A call in progress: the function and the statement it is at.
Frame(fn, pc) == [fn |-> fn, pc |-> pc]

\* The first statement of a call.
Entry(fn) == Frame(fn, IF fn = "Abandon" THEN "end" ELSE "setToIf")

TeardownInit ==
    /\ opEnded = FALSE
    /\ relayAbandoned = FALSE
    /\ opEndsFromEnd = 0
    /\ ctxCancels = 0
    /\ callStack = [c \in Callers |-> <<>>]
    /\ callsMade = 0

\* The innermost call of the caller.
Top(c) == callStack[c][Len(callStack[c])]

At(c, fn, pc) == callStack[c] # <<>> /\ Top(c) = Frame(fn, pc)

\* The call stack after the innermost call moved on to the statement pc.
Goto(stack, pc) == [stack EXCEPT ![Len(stack)].pc = pc]

Returned(stack) == SubSeq(stack, 1, Len(stack) - 1)

\* abool.SetToIf(false, true): whether it sets the flag.
SetToIfAlways(flag) == TRUE
SetToIf(flag) == ~flag

\* A caller calls End, Abandon or the relay terminal's Abandon.
TeardownCall(c, fn) ==
    /\ callStack[c] = <<>>
    /\ callsMade < MaxCalls
    /\ callStack' = [callStack EXCEPT ![c] = <<Entry(fn)>>]
    /\ callsMade' = callsMade + 1
    /\ UNCHANGED <<opEnded, relayAbandoned, opEndsFromEnd, ctxCancels>>
    /\ TeardownOnly

\* ExpandOp.Abandon: op.End(err).
AbandonCallsEnd(c) ==
    /\ At(c, "Abandon", "end")
    /\ callStack' = [callStack EXCEPT ![c] = Append(Goto(@, "return"), Entry("End"))]
    /\ UNCHANGED <<opEnded, relayAbandoned, opEndsFromEnd, ctxCancels, callsMade>>
    /\ TeardownOnly

\* ExpandOp.End: if op.ended.SetToIf(false, true).
EndSetToIf(c) ==
    /\ At(c, "End", "setToIf")
    /\ opEnded' = (opEnded \/ SetToIf(opEnded))
    /\ callStack' = [callStack EXCEPT ![c] =
                        Goto(@, IF SetToIf(opEnded) THEN "opEnd" ELSE "return")]
    /\ UNCHANGED <<relayAbandoned, opEndsFromEnd, ctxCancels, callsMade>>
    /\ TeardownOnly

\* ExpandOp.End: op.opTerminal.OpEnd(op, err).
EndCallsOpEnd(c, callsBack) ==
    /\ At(c, "End", "opEnd")
    /\ opEndsFromEnd' = opEndsFromEnd + 1
    /\ callStack' = [callStack EXCEPT ![c] =
                        IF callsBack THEN Append(Goto(@, "cancelCtx"), Entry("End"))
                        ELSE Goto(@, "cancelCtx")]
    /\ UNCHANGED <<opEnded, relayAbandoned, ctxCancels, callsMade>>
    /\ TeardownOnly

\* ExpandOp.End: op.cancelCtx().
EndCancelsCtx(c) ==
    /\ At(c, "End", "cancelCtx")
    /\ ctxCancels' = ctxCancels + 1
    /\ callStack' = [callStack EXCEPT ![c] = Goto(@, "abandonTerminal")]
    /\ UNCHANGED <<opEnded, relayAbandoned, opEndsFromEnd, callsMade>>
    /\ TeardownOnly

\* ExpandOp.End: op.relayTerminal.crane.AbandonTerminal(op.relayTerminal.id, nil).
EndAbandonsTerminal(c, callsBack) ==
    /\ At(c, "End", "abandonTerminal")
    /\ callStack' = [callStack EXCEPT ![c] =
                        IF callsBack
                        THEN Append(Goto(@, "return"), Entry("RelayAbandon"))
                        ELSE Goto(@, "return")]
    /\ UNCHANGED <<opEnded, relayAbandoned, opEndsFromEnd, ctxCancels, callsMade>>
    /\ TeardownOnly

\* ExpansionRelayTerminal.Abandon: if t.abandoned.SetToIf(false, true).
RelaySetToIf(c) ==
    /\ At(c, "RelayAbandon", "setToIf")
    /\ relayAbandoned' = (relayAbandoned \/ SetToIf(relayAbandoned))
    /\ callStack' = [callStack EXCEPT ![c] =
                        Goto(@, IF SetToIf(relayAbandoned) THEN "abandonTerminal"
                                ELSE "return")]
    /\ UNCHANGED <<opEnded, opEndsFromEnd, ctxCancels, callsMade>>
    /\ TeardownOnly

\* ExpansionRelayTerminal.Abandon: t.crane.AbandonTerminal(t.id, err).
RelayAbandonsTerminal(c, callsBack) ==
    /\ At(c, "RelayAbandon", "abandonTerminal")
    /\ callStack' = [callStack EXCEPT ![c] =
                        IF callsBack
                        THEN Append(Goto(@, "end"), Entry("RelayAbandon"))
                        ELSE Goto(@, "end")]
    /\ UNCHANGED <<opEnded, relayAbandoned, opEndsFromEnd, ctxCancels, callsMade>>
    /\ TeardownOnly

\* ExpansionRelayTerminal.Abandon: t.op.End(err.Wrap("relay failed with")).
RelayCallsEnd(c) ==
    /\ At(c, "RelayAbandon", "end")
    /\ callStack' = [callStack EXCEPT ![c] = Append(Goto(@, "return"), Entry("End"))]
    /\ UNCHANGED <<opEnded, relayAbandoned, opEndsFromEnd, ctxCancels, callsMade>>
    /\ TeardownOnly

\* The innermost call returns.
CallReturns(c) ==
    /\ callStack[c] # <<>>
    /\ Top(c).pc = "return"
    /\ callStack' = [callStack EXCEPT ![c] = Returned(@)]
    /\ UNCHANGED <<opEnded, relayAbandoned, opEndsFromEnd, ctxCancels, callsMade>>
    /\ TeardownOnly

\* A statement of a call in progress.
TeardownStep ==
    \/ \E c \in Callers :
          \/ AbandonCallsEnd(c)
          \/ EndSetToIf(c)
          \/ EndCancelsCtx(c)
          \/ RelaySetToIf(c)
          \/ RelayCallsEnd(c)
          \/ CallReturns(c)
    \/ \E c \in Callers, callsBack \in BOOLEAN :
          \/ EndCallsOpEnd(c, callsBack)
          \/ EndAbandonsTerminal(c, callsBack)
          \/ RelayAbandonsTerminal(c, callsBack)

TeardownNext ==
    \/ \E c \in Callers, fn \in TeardownCalls : TeardownCall(c, fn)
    \/ TeardownStep

(***************************************************************************)
(* Claims about the teardown.                                              *)
(***************************************************************************)
AllReturned == \A c \in Callers : callStack[c] = <<>>

TeardownCalled == callsMade > 0

\* C29: however often and however concurrently End, Abandon and the relay
\* terminal's Abandon are called, with the calls they make on each other
\* through the crane and the terminal, End never calls the origin terminal's
\* OpEnd or cancels the context more than once, and has done both exactly
\* once when the calls have returned; no call nests deeper than four calls,
\* and the calls in progress return.
C29_TeardownAtMostOnce ==
    /\ [](/\ opEndsFromEnd <= 1
          /\ ctxCancels <= 1
          /\ \A c \in Callers : Len(callStack[c]) <= 4
          /\ (AllReturned /\ TeardownCalled) =>
                 opEndsFromEnd = 1 /\ ctxCancels = 1)
    /\ []<>AllReturned

\* Abandon called End, which won the flag and abandoned the relay terminal,
\* whose Abandon called End again, while another caller is in a call.
C29_Witness ==
    \E c, d \in Callers :
        /\ c # d
        /\ Len(callStack[c]) = 4
        /\ callStack[c][1].fn = "Abandon"
        /\ Top(c) = Frame("End", "return")
        /\ callStack[d] # <<>>
        /\ opEndsFromEnd = 1

(***************************************************************************)
(* Part 12. Imports of the same new hub from several gossip channels       *)
(* (src/docks/hub_import.go, hubImportLock and ImportAndVerifyHubInfo).    *)
(* Every channel calls ImportAndVerifyHubInfo with the announcement and    *)
(* the status of a hub that is not in the database; the calls run          *)
(* statement by statement.                                                 *)
(***************************************************************************)
MaxChannels == 3

Channels == 1..MaxChannels

\* What a call returned: forward and the error.
Returned3(forward, err) == [forward |-> forward, err |-> err]
NotReturned == Returned3(FALSE, "none")

GossipInit ==
    /\ hubImportLock = 0
    /\ channelPC = [c \in Channels |-> "lock"]
    /\ channelApplied = [c \in Channels |-> Applied(NoHub, FALSE, NoError)]
    /\ channelReturned = [c \in Channels |-> NotReturned]

\* hubImportLock.Lock(): whether the caller gets the lock.
Locked(holder) == holder = 0

GossipUnchangedImport ==
    UNCHANGED <<importPublicHub, prevImport, lastImport, imports, hubMsgs,
                lastVerify>>

\* hubImportLock.Lock()
ChannelLocks(c) ==
    /\ channelPC[c] = "lock"
    /\ Locked(hubImportLock)
    /\ hubImportLock' = c
    /\ channelPC' = [channelPC EXCEPT ![c] = "apply"]
    /\ UNCHANGED <<channelApplied, channelReturned, hubDB>>
    /\ GossipUnchangedImport
    /\ GossipOnly

\* The arguments are checked and the announcement and the status of the hub
\* (both of timestamp 1 on every channel) are applied.
ChannelApplies(c, replayIsError) ==
    /\ channelPC[c] = "apply"
    /\ LET applied == ImportApplied(1, 1, TRUE, replayIsError)
       IN  IF applied.err # NoError
           THEN /\ channelReturned' = [channelReturned EXCEPT ![c] =
                                          Returned3(FALSE, applied.err.id)]
                /\ channelPC' = [channelPC EXCEPT ![c] = "unlock"]
                /\ UNCHANGED channelApplied
           ELSE /\ channelApplied' = [channelApplied EXCEPT ![c] = applied]
                /\ channelPC' = [channelPC EXCEPT ![c] =
                                    IF NeedsVerification(applied.h) THEN "verify"
                                    ELSE "save"]
                /\ UNCHANGED channelReturned
    /\ UNCHANGED <<hubImportLock, hubDB>>
    /\ GossipUnchangedImport
    /\ GossipOnly

\* The hub's IP is verified.
ChannelVerifies(c, outcome) ==
    /\ channelPC[c] = "verify"
    /\ IF VerifyIPs(1, <<outcome, "ok">>).failed
       THEN /\ channelReturned' = [channelReturned EXCEPT ![c] =
                                      Returned3(channelApplied[c].forward, "ErrIntegrity")]
            /\ channelPC' = [channelPC EXCEPT ![c] = "unlock"]
            /\ UNCHANGED channelApplied
       ELSE /\ channelApplied' = [channelApplied EXCEPT ![c].h.verified = TRUE]
            /\ channelPC' = [channelPC EXCEPT ![c] = "save"]
            /\ UNCHANGED channelReturned
    /\ UNCHANGED <<hubImportLock, hubDB>>
    /\ GossipUnchangedImport
    /\ GossipOnly

\* h.Save(), and the return after it.
ChannelSaves(c, saveOK) ==
    /\ channelPC[c] = "save"
    /\ hubDB' = IF saveOK THEN channelApplied[c].h ELSE hubDB
    /\ channelReturned' = [channelReturned EXCEPT ![c] =
                              Returned3(channelApplied[c].forward,
                                        IF saveOK THEN "nil" ELSE "ErrInternalError")]
    /\ channelPC' = [channelPC EXCEPT ![c] = "unlock"]
    /\ UNCHANGED <<hubImportLock, channelApplied>>
    /\ GossipUnchangedImport
    /\ GossipOnly

\* The deferred hubImportLock.Unlock().
ChannelUnlocks(c) ==
    /\ channelPC[c] = "unlock"
    /\ hubImportLock' = 0
    /\ channelPC' = [channelPC EXCEPT ![c] = "returned"]
    /\ UNCHANGED <<channelApplied, channelReturned, hubDB>>
    /\ GossipUnchangedImport
    /\ GossipOnly

GossipNext ==
    \/ \E c \in Channels : ChannelLocks(c) \/ ChannelUnlocks(c)
    \/ \E c \in Channels, replayIsError \in BOOLEAN : ChannelApplies(c, replayIsError)
    \/ \E c \in Channels, outcome \in VerifyOutcomes : ChannelVerifies(c, outcome)
    \/ \E c \in Channels, saveOK \in BOOLEAN : ChannelSaves(c, saveOK)

(***************************************************************************)
(* Claims about concurrent imports.                                        *)
(***************************************************************************)
\* The channels whose call is between applying the data and saving the hub.
Importing == {c \in Channels : channelPC[c] \in {"apply", "verify", "save"}}

\* The channels whose call returned forward=true.
Forwarding == {c \in Channels : channelReturned[c].forward}

\* At most one call is between applying and saving at any time.
ImportsSerialized == Cardinality(Importing) <= 1

\* C33: imports are serialized: at most one call of ImportAndVerifyHubInfo is
\* between applying the announcement and status and saving the hub at any
\* time, and of the calls that deliver the same new hub at the same time at
\* most one returns forward=true.
C33_SerializedImportsForwardOnce ==
    /\ ImportsSerialized
    /\ Cardinality(Forwarding) <= 1

(***************************************************************************)
(* Part 13. The maintenance of the own announcement and status             *)
(* (src/captain/public.go, maintainPublicIdentity and                      *)
(* maintainPublicStatus), statement by statement. Identity's               *)
(* MaintainAnnouncement, MaintainStatus, ExportAnnouncement and            *)
(* ExportStatus are not in the source: what they answer is an input, and   *)
(* a maintenance that fails reports no change.                             *)
(***************************************************************************)
MaxTaskRuns == 2

MaintenanceTasks == {"maintainPublicIdentity", "maintainPublicStatus"}

\* What the maintenance answers: changed and whether it failed.
Maintained(changed, failed) == [changed |-> changed, failed |-> failed]
MaintenanceResults ==
    {Maintained(FALSE, FALSE), Maintained(TRUE, FALSE), Maintained(FALSE, TRUE)}

\* The answers of a run: of the maintenance, and whether the export worked
\* ("none" before it is called).
RunResult(maintained, export) == [maintained |-> maintained, export |-> export]

CaptainInit ==
    /\ taskPC = [t \in MaintenanceTasks |-> "idle"]
    /\ taskResult = [t \in MaintenanceTasks |->
                        RunResult(Maintained(FALSE, FALSE), "none")]
    /\ taskEvents = [t \in MaintenanceTasks |-> <<>>]
    /\ taskRuns = [t \in MaintenanceTasks |-> 0]

\* The message type the task relays.
GossipMsgType(t) ==
    IF t = "maintainPublicIdentity" THEN "GossipHubAnnouncementMsg"
    ELSE "GossipHubStatusMsg"

\* if !changed { return nil }
ChangedAlways(maintained) == TRUE
Changed(maintained) == maintained.changed

\* The task runs: the maintenance is called; the run returns if it failed or
\* reported no change.
TaskMaintains(t, maintained) ==
    /\ taskPC[t] \in {"idle", "returned"}
    /\ taskRuns[t] < MaxTaskRuns
    /\ taskRuns' = [taskRuns EXCEPT ![t] = @ + 1]
    /\ taskResult' = [taskResult EXCEPT ![t] = RunResult(maintained, "none")]
    /\ taskEvents' = [taskEvents EXCEPT ![t] = <<>>]
    /\ taskPC' = [taskPC EXCEPT ![t] =
                     IF maintained.failed THEN "returned"
                     ELSE IF ~Changed(maintained) THEN "returned"
                     ELSE "update"]
    /\ CaptainOnly

\* navigator.Main.UpdateHub(publicIdentity.Hub)
TaskUpdatesMap(t) ==
    /\ taskPC[t] = "update"
    /\ taskEvents' = [taskEvents EXCEPT ![t] = Append(@, "UpdateHub")]
    /\ taskPC' = [taskPC EXCEPT ![t] = "export"]
    /\ UNCHANGED <<taskResult, taskRuns>>
    /\ CaptainOnly

\* ExportAnnouncement or ExportStatus; the run returns if it fails.
TaskExports(t, ok) ==
    /\ taskPC[t] = "export"
    /\ taskResult' = [taskResult EXCEPT ![t].export = IF ok THEN "ok" ELSE "failed"]
    /\ taskPC' = [taskPC EXCEPT ![t] = IF ok THEN "relay" ELSE "returned"]
    /\ UNCHANGED <<taskEvents, taskRuns>>
    /\ CaptainOnly

\* gossipRelayMsg, and what follows it up to the return.
TaskRelays(t) ==
    /\ taskPC[t] = "relay"
    /\ taskEvents' = [taskEvents EXCEPT ![t] = Append(@, GossipMsgType(t))]
    /\ taskPC' = [taskPC EXCEPT ![t] = "returned"]
    /\ UNCHANGED <<taskResult, taskRuns>>
    /\ CaptainOnly

CaptainNext ==
    \/ \E t \in MaintenanceTasks, maintained \in MaintenanceResults :
          TaskMaintains(t, maintained)
    \/ \E t \in MaintenanceTasks : TaskUpdatesMap(t) \/ TaskRelays(t)
    \/ \E t \in MaintenanceTasks, ok \in BOOLEAN : TaskExports(t, ok)

(***************************************************************************)
(* Claims about the maintenance of the own hub.                            *)
(***************************************************************************)
\* The position of an event in the events of the task's run, 0 if none.
EventAt(t, e) ==
    IF \E i \in 1..Len(taskEvents[t]) : taskEvents[t][i] = e
    THEN CHOOSE i \in 1..Len(taskEvents[t]) : taskEvents[t][i] = e
    ELSE 0

\* The run of the task has returned.
TaskReturned(t) == taskPC[t] = "returned"

\* C36: the own announcement and status are propagated only on change: a run
\* of maintainPublicIdentity or maintainPublicStatus updates the own hub on
\* the map if and only if the maintenance reported a change, and relays the
\* gossip message if and only if it did and the export worked; the map is
\* updated before the message is relayed, and nothing is relayed when the
\* export fails after the map update.
C36_PropagatedOnlyOnChange ==
    \A t \in MaintenanceTasks :
        /\ TaskReturned(t) =>
              /\ EventAt(t, "UpdateHub") > 0 <=> taskResult[t].maintained.changed
              /\ EventAt(t, GossipMsgType(t)) > 0 <=>
                    (taskResult[t].maintained.changed /\ taskResult[t].export = "ok")
              /\ taskResult[t].export = "failed" =>
                    taskEvents[t] = <<"UpdateHub">>
        /\ EventAt(t, GossipMsgType(t)) > 0 =>
              /\ EventAt(t, "UpdateHub") > 0
              /\ EventAt(t, "UpdateHub") < EventAt(t, GossipMsgType(t))
        /\ Len(taskEvents[t]) <= 2

\* The status changed and was put on the map and relayed, in this order;
\* the announcement changed and its export failed after the map update.
C36_Witness ==
    /\ TaskReturned("maintainPublicStatus")
    /\ taskEvents["maintainPublicStatus"] = <<"UpdateHub", "GossipHubStatusMsg">>
    /\ TaskReturned("maintainPublicIdentity")
    /\ taskResult["maintainPublicIdentity"].export = "failed"
    /\ taskEvents["maintainPublicIdentity"] = <<"UpdateHub">>

(***************************************************************************)
(* Part 14. The crane update hook (src/unnamed/part_000):                  *)
(* RegisterCraneUpdateHook, ResetCraneUpdateHook and Crane.NotifyUpdate,   *)
(* called by several goroutines. craneUpdateHookLock is a sync.Mutex: a    *)
(* goroutine that locks it while it holds it waits forever.                *)
(***************************************************************************)
MaxGoroutines == 2

Goroutines == 1..MaxGoroutines

\* What a hook function does when it is called: nothing of interest, or a
\* call of one of the three functions.
HookFns == {"returns", "NotifyUpdate", "RegisterCraneUpdateHook",
            "ResetCraneUpdateHook"}

HookInit ==
    /\ craneUpdateHook = "nil"
    /\ craneUpdateHookLock = 0
    /\ hookPC = [g \in Goroutines |-> "idle"]
    /\ hookArg = [g \in Goroutines |-> "nil"]
    /\ hookCalls = [g \in Goroutines |-> 0]

\* A goroutine calls one of the functions and comes to its Lock().
HookCall(g, fn, arg) ==
    /\ hookPC[g] \in {"idle", "registered", "reset", "notified"}
    /\ fn = "RegisterCraneUpdateHook" <=> arg # "nil"
    /\ hookPC' = [hookPC EXCEPT ![g] = fn]
    /\ hookArg' = [hookArg EXCEPT ![g] = arg]
    /\ hookCalls' = [hookCalls EXCEPT ![g] = 0]
    /\ UNCHANGED <<craneUpdateHook, craneUpdateHookLock>>
    /\ HookOnly

\* RegisterCraneUpdateHook from Lock() to the deferred Unlock(): the hook is
\* set if there is none.
KeepsRegistered(hook) == hook # "nil"

RegisterCraneUpdateHook(g) ==
    /\ hookPC[g] = "RegisterCraneUpdateHook"
    /\ craneUpdateHookLock = 0
    /\ craneUpdateHook' = IF KeepsRegistered(craneUpdateHook) THEN craneUpdateHook
                          ELSE hookArg[g]
    /\ hookPC' = [hookPC EXCEPT ![g] = "registered"]
    /\ UNCHANGED <<craneUpdateHookLock, hookArg, hookCalls>>
    /\ HookOnly

\* ResetCraneUpdateHook from Lock() to the deferred Unlock().
ResetCraneUpdateHook(g) ==
    /\ hookPC[g] = "ResetCraneUpdateHook"
    /\ craneUpdateHookLock = 0
    /\ craneUpdateHook' = "nil"
    /\ hookPC' = [hookPC EXCEPT ![g] = "reset"]
    /\ UNCHANGED <<craneUpdateHookLock, hookArg, hookCalls>>
    /\ HookOnly

\* NotifyUpdate, Lock(): without a hook it returns; with one it calls the
\* hook with the lock held.
NotifyUpdateLocks(g) ==
    /\ hookPC[g] = "NotifyUpdate"
    /\ craneUpdateHookLock = 0
    /\ hookArg' = [hookArg EXCEPT ![g] = craneUpdateHook]
    /\ IF craneUpdateHook = "nil"
       THEN /\ hookPC' = [hookPC EXCEPT ![g] = "notified"]
            /\ UNCHANGED <<craneUpdateHookLock, hookCalls>>
       ELSE /\ hookPC' = [hookPC EXCEPT ![g] = "in hook"]
            /\ craneUpdateHookLock' = g
            /\ hookCalls' = [hookCalls EXCEPT ![g] = @ + 1]
    /\ UNCHANGED craneUpdateHook
    /\ HookOnly

\* The hook function runs: it returns, and NotifyUpdate unlocks and returns;
\* or it calls one of the three functions and comes to the Lock() of that,
\* which waits until the lock is free.
HookRuns(g) ==
    /\ hookPC[g] = "in hook"
    /\ IF hookArg[g] = "returns"
       THEN /\ hookPC' = [hookPC EXCEPT ![g] = "notified"]
            /\ craneUpdateHookLock' = 0
       ELSE /\ hookPC' = [hookPC EXCEPT ![g] = "hook locks"]
            /\ UNCHANGED craneUpdateHookLock
    /\ UNCHANGED <<craneUpdateHook, hookArg, hookCalls>>
    /\ HookOnly

HookNext ==
    \/ \E g \in Goroutines :
          \/ HookCall(g, "NotifyUpdate", "nil")
          \/ HookCall(g, "ResetCraneUpdateHook", "nil")
          \/ \E fn \in HookFns : HookCall(g, "RegisterCraneUpdateHook", fn)
    \/ \E g \in Goroutines : RegisterCraneUpdateHook(g) \/ ResetCraneUpdateHook(g)
    \/ \E g \in Goroutines : NotifyUpdateLocks(g) \/ HookRuns(g)

(***************************************************************************)
(* Claims about the crane update hook.                                     *)
(***************************************************************************)
\* The goroutines that are in a call of the hook function.
InHook == { g \in Goroutines : hookPC[g] \in {"in hook", "hook locks"} }

\* Hook invocations never run concurrently.
OneHookAtATime == Cardinality(InHook) <= 1

\* A NotifyUpdate that returned invoked the hook it found once, and nothing
\* when it found none.
NotifiedOnce ==
    \A g \in Goroutines : hookPC[g] = "notified" =>
        hookCalls[g] = IF hookArg[g] = "nil" THEN 0 ELSE 1

\* A goroutine waits for the lock that it holds itself.
WaitsForItself(g) == hookPC[g] = "hook locks" /\ craneUpdateHookLock = g

\* RegisterCraneUpdateHook with a hook registered leaves it in place.
SecondRegisterKeepsFirst ==
    [][\A g \in Goroutines :
          (hookPC[g] = "RegisterCraneUpdateHook" /\ hookPC'[g] = "registered"
              /\ craneUpdateHook # "nil") => craneUpdateHook' = craneUpdateHook]_vars

\* C37: at most one crane update hook is registered: a second
\* RegisterCraneUpdateHook without a ResetCraneUpdateHook before it leaves the
\* first hook in place; NotifyUpdate invokes the registered hook exactly once
\* per call and does nothing when there is none; hook invocations never run
\* concurrently; and a hook that itself calls NotifyUpdate,
\* RegisterCraneUpdateHook or ResetCraneUpdateHook does not deadlock.
C37_OneHookNoDeadlock ==
    /\ SecondRegisterKeepsFirst
    /\ [](OneHookAtATime /\ NotifiedOnce)
    /\ [](\A g \in Goroutines : ~WaitsForItself(g))

\* The same without the hooks that call back.
HookRulesOfPlainHooks ==
    /\ SecondRegisterKeepsFirst
    /\ [](OneHookAtATime /\ NotifiedOnce)

(***************************************************************************)
(* Part 15. Units (src/unit/unit.go): PauseUnit, WaitForUnitSlot and       *)
(* FinishUnit, called by several goroutines on the units of the current    *)
(* epoch, one atomic operation at a time. The scheduler is not in the      *)
(* source: it has given clearance to all units and leaves the epoch and    *)
(* the clearance alone; no unit has high priority.                         *)
(***************************************************************************)
MaxUnits == 2
MaxUnitCallers == 2
MaxUnitCalls == 3

\* The ids of the units.
Units == 1..MaxUnits
UnitCallers == 1..MaxUnitCallers

UnitFns == {"PauseUnit", "WaitForUnitSlot", "FinishUnit"}

UnitCall(fn, u) == [fn |-> fn, unit |-> u]

UnitInit ==
    /\ unitFinished = [u \in Units |-> FALSE]
    /\ unitPaused = [u \in Units |-> FALSE]
    /\ pausedUnits = 0
    /\ clearanceUpTo = MaxUnits
    /\ unitCall = [g \in UnitCallers |-> UnitCall("none", 1)]
    /\ unitPC = [g \in UnitCallers |-> "idle"]
    /\ unitCalls = 0

UnitAt(g, pc) == unitPC[g] = pc
UnitGoto(g, pc) == unitPC' = [unitPC EXCEPT ![g] = pc]

\* A goroutine calls a function on a unit.
UnitCalled(g, fn, u) ==
    /\ UnitAt(g, "idle")
    /\ unitCalls < MaxUnitCalls
    /\ unitCalls' = unitCalls + 1
    /\ unitCall' = [unitCall EXCEPT ![g] = UnitCall(fn, u)]
    /\ UnitGoto(g, CASE fn = "PauseUnit" -> "PauseUnit: finished.IsNotSet"
                     [] fn = "WaitForUnitSlot" -> "unpause: paused.SetToIf"
                     [] fn = "FinishUnit" -> "FinishUnit: finished.SetToIf")
    /\ UNCHANGED <<unitFinished, unitPaused, pausedUnits, clearanceUpTo>>
    /\ UnitOnly

\* PauseUnit: u.finished.IsNotSet()
PauseChecksFinished(g) ==
    /\ UnitAt(g, "PauseUnit: finished.IsNotSet")
    /\ UnitGoto(g, IF unitFinished[unitCall[g].unit] THEN "idle"
                   ELSE "PauseUnit: paused.SetToIf")
    /\ UNCHANGED <<unitFinished, unitPaused, pausedUnits, clearanceUpTo, unitCall,
                   unitCalls>>
    /\ UnitOnly

\* PauseUnit: u.paused.SetToIf(false, true)
PauseSetsPaused(g) ==
    /\ UnitAt(g, "PauseUnit: paused.SetToIf")
    /\ unitPaused' = [unitPaused EXCEPT ![unitCall[g].unit] = TRUE]
    /\ UnitGoto(g, IF unitPaused[unitCall[g].unit] THEN "idle"
                   ELSE "PauseUnit: pausedUnits.Add")
    /\ UNCHANGED <<unitFinished, pausedUnits, clearanceUpTo, unitCall, unitCalls>>
    /\ UnitOnly

\* PauseUnit: u.scheduler.pausedUnits.Add(1)
PauseAddsPaused(g) ==
    /\ UnitAt(g, "PauseUnit: pausedUnits.Add")
    /\ pausedUnits' = pausedUnits + 1
    /\ UnitGoto(g, "PauseUnit: clearanceUpTo.Add")
    /\ UNCHANGED <<unitFinished, unitPaused, clearanceUpTo, unitCall, unitCalls>>
    /\ UnitOnly

\* PauseUnit: u.scheduler.clearanceUpTo.Add(1)
PauseRaisesClearance(g) ==
    /\ UnitAt(g, "PauseUnit: clearanceUpTo.Add")
    /\ clearanceUpTo' = clearanceUpTo + 1
    /\ UnitGoto(g, "idle")
    /\ UNCHANGED <<unitFinished, unitPaused, pausedUnits, unitCall, unitCalls>>
    /\ UnitOnly

\* Where unpause returns to: FinishUnit returns, WaitForUnitSlot goes on to
\* wait for its slot.
AfterUnpause(g) ==
    IF unitCall[g].fn = "WaitForUnitSlot" THEN "WaitForUnitSlot: clearance"
    ELSE "idle"

\* FinishUnit: u.finished.SetToIf(false, true); the unit is counted as
\* finished; then unpause.
FinishSetsFinished(g) ==
    /\ UnitAt(g, "FinishUnit: finished.SetToIf")
    /\ unitFinished' = [unitFinished EXCEPT ![unitCall[g].unit] = TRUE]
    /\ UnitGoto(g, "unpause: paused.SetToIf")
    /\ UNCHANGED <<unitPaused, pausedUnits, clearanceUpTo, unitCall, unitCalls>>
    /\ UnitOnly

\* unpause: u.paused.SetToIf(true, false)
UnpauseUnsetsPaused(g) ==
    /\ UnitAt(g, "unpause: paused.SetToIf")
    /\ unitPaused' = [unitPaused EXCEPT ![unitCall[g].unit] = FALSE]
    /\ UnitGoto(g, IF unitPaused[unitCall[g].unit] THEN "unpause: pausedUnits.Add"
                   ELSE AfterUnpause(g))
    /\ UNCHANGED <<unitFinished, pausedUnits, clearanceUpTo, unitCall, unitCalls>>
    /\ UnitOnly

\* unpause: u.scheduler.pausedUnits.Add(-1) < 0
UnpauseSubtractsPaused(g) ==
    /\ UnitAt(g, "unpause: pausedUnits.Add")
    /\ pausedUnits' = pausedUnits - 1
    /\ UnitGoto(g, IF pausedUnits - 1 < 0 THEN "unpause: revert"
                   ELSE "unpause: clearanceUpTo.Add")
    /\ UNCHANGED <<unitFinished, unitPaused, clearanceUpTo, unitCall, unitCalls>>
    /\ UnitOnly

\* unpause: u.scheduler.pausedUnits.Add(1) and return
UnpauseReverts(g) ==
    /\ UnitAt(g, "unpause: revert")
    /\ pausedUnits' = pausedUnits + 1
    /\ UnitGoto(g, AfterUnpause(g))
    /\ UNCHANGED <<unitFinished, unitPaused, clearanceUpTo, unitCall, unitCalls>>
    /\ UnitOnly

\* unpause: u.scheduler.clearanceUpTo.Add(-1)
UnpauseLowersClearance(g) ==
    /\ UnitAt(g, "unpause: clearanceUpTo.Add")
    /\ clearanceUpTo' = clearanceUpTo - 1
    /\ UnitGoto(g, AfterUnpause(g))
    /\ UNCHANGED <<unitFinished, unitPaused, pausedUnits, unitCall, unitCalls>>
    /\ UnitOnly

\* WaitForUnitSlot returns when u.id <= u.scheduler.clearanceUpTo.Load().
WaitGetsSlot(g) ==
    /\ UnitAt(g, "WaitForUnitSlot: clearance")
    /\ unitCall[g].unit <= clearanceUpTo
    /\ UnitGoto(g, "idle")
    /\ UNCHANGED <<unitFinished, unitPaused, pausedUnits, clearanceUpTo, unitCall,
                   unitCalls>>
    /\ UnitOnly

UnitNext ==
    \/ \E g \in UnitCallers, fn \in UnitFns, u \in Units : UnitCalled(g, fn, u)
    \/ \E g \in UnitCallers : PauseChecksFinished(g) \/ PauseSetsPaused(g)
    \/ \E g \in UnitCallers : PauseAddsPaused(g) \/ PauseRaisesClearance(g)
    \/ \E g \in UnitCallers : FinishSetsFinished(g) \/ UnpauseUnsetsPaused(g)
    \/ \E g \in UnitCallers : UnpauseSubtractsPaused(g) \/ UnpauseReverts(g)
    \/ \E g \in UnitCallers : UnpauseLowersClearance(g) \/ WaitGetsSlot(g)

(***************************************************************************)
(* Claims about units.                                                     *)
(***************************************************************************)
\* No call is in progress.
UnitsQuiet == \A g \in UnitCallers : UnitAt(g, "idle")

PausedFlags == { u \in Units : unitPaused[u] }

\* C38: for units of the current epoch and under any interleaving of
\* PauseUnit, WaitForUnitSlot and FinishUnit on the same or on different
\* units, once the calls have returned scheduler.pausedUnits is the number of
\* units whose paused flag is set, the net amount by which pausing has raised
\* clearanceUpTo is pausedUnits, and no finished unit is left paused.
C38_PausedUnitsAccounted ==
    UnitsQuiet =>
        /\ pausedUnits = Cardinality(PausedFlags)
        /\ clearanceUpTo - MaxUnits = pausedUnits
        /\ \A u \in Units : unitFinished[u] => ~unitPaused[u]

(***************************************************************************)
(* Part 16. The nearest hubs to a location (src/navigator/api.go,          *)
(* nearbyPins.add, nearbyPins.clean and Map.findNearestPins). Proximities  *)
(* are small integers here; the loop visits the pins of the map in any     *)
(* order. nearestPinsMinimum and nearestPinsMaxProximityDifference are not *)
(* in the source.                                                          *)
(***************************************************************************)
MaxProximity == 2
MaxMatches == 2
nearestPinsMinimum == 1
nearestPinsMaxProximityDifference == 1

NearHubs == {"a", "b", "c"}

\* The proximity of a location: -1 if there is none to compare.
Proximities == -1..MaxProximity

NearbyPin(pin, proximity) == [pin |-> pin, proximity |-> proximity]
Nearby(list, minProximity) == [pins |-> list, minProximity |-> minProximity]

\* maxMatches raised to nearestPinsMinimum.
MaxPins(maxMatches) ==
    IF maxMatches < nearestPinsMinimum THEN nearestPinsMinimum ELSE maxMatches

NearInit ==
    /\ nearLocations \in [NearHubs -> [v4 : Proximities, v6 : Proximities]]
    /\ nearMaxMatches \in 0..MaxMatches
    /\ nearTodo = NearHubs
    /\ nearby = Nearby(<<>>, 0)
    /\ nearReturned = FALSE

\* nearbyPins.add
NearbyAdd(nb, pin, proximity) ==
    IF Len(nb.pins) > nearestPinsMinimum /\ proximity < nb.minProximity
    THEN nb
    ELSE Nearby(Append(nb.pins, NearbyPin(pin, proximity)), nb.minProximity)

\* sort.Sort(nb): the closest first.
RECURSIVE SortNearby(_)
SortNearby(list) ==
    IF list = <<>> THEN <<>>
    ELSE LET i == CHOOSE i \in 1..Len(list) :
                     \A j \in 1..Len(list) :
                         \/ list[j].proximity < list[i].proximity
                         \/ list[j].proximity = list[i].proximity /\ j >= i
         IN  <<list[i]>> \o SortNearby(SubSeq(list, 1, i - 1)
                                          \o SubSeq(list, i + 1, Len(list)))

\* clean, the search for the first pin that is too far away.
RECURSIVE OkUntil(_, _, _)
OkUntil(list, okUntil, minProximity) ==
    IF okUntil < Len(list) /\ list[okUntil + 1].proximity >= minProximity
    THEN OkUntil(list, okUntil + 1, minProximity)
    ELSE okUntil

\* nearbyPins.clean
NearbyClean(nb, maxPins) ==
    LET sorted == SortNearby(nb.pins)
        minProximity == IF Len(sorted) >= nearestPinsMinimum
                        THEN sorted[1].proximity - nearestPinsMaxProximityDifference
                        ELSE nb.minProximity
        shortened == IF Len(sorted) > maxPins THEN SubSeq(sorted, 1, maxPins)
                     ELSE sorted
        near == IF Len(shortened) > nearestPinsMinimum
                THEN SubSeq(shortened, 1,
                            OkUntil(shortened, nearestPinsMinimum, minProximity))
                ELSE shortened
    IN  Nearby(near,
               IF /\ Len(near) >= nearestPinsMinimum
                  /\ near[Len(near)].proximity > minProximity
               THEN near[Len(near)].proximity
               ELSE minProximity)

\* The body of the loop for one pin: its IPv4 and its IPv6 proximity are
\* added, and the list is cleaned when it has twice the maximum.
VisitPin(pin) ==
    /\ ~nearReturned
    /\ pin \in nearTodo
    /\ nearTodo' = nearTodo \ {pin}
    /\ LET maxPins == MaxPins(nearMaxMatches)
           withV4 == IF nearLocations[pin].v4 >= 0
                     THEN NearbyAdd(nearby, pin, nearLocations[pin].v4)
                     ELSE nearby
           withV6 == IF nearLocations[pin].v6 >= 0
                     THEN NearbyAdd(withV4, pin, nearLocations[pin].v6)
                     ELSE withV4
       IN  nearby' = IF Len(withV6.pins) >= maxPins * 2
                     THEN NearbyClean(withV6, maxPins)
                     ELSE withV6
    /\ UNCHANGED <<nearLocations, nearMaxMatches, nearReturned>>
    /\ NearOnly

\* After the loop: without a pin the call fails, otherwise the list is
\* cleaned one last time and returned.
FindNearestReturns ==
    /\ ~nearReturned
    /\ nearTodo = {}
    /\ nearReturned' = TRUE
    /\ nearby' = IF Len(nearby.pins) = 0 THEN nearby
                 ELSE NearbyClean(nearby, MaxPins(nearMaxMatches))
    /\ UNCHANGED <<nearLocations, nearMaxMatches, nearTodo>>
    /\ NearOnly

NearNext ==
    \/ \E pin \in NearHubs : VisitPin(pin)
    \/ FindNearestReturns

(***************************************************************************)
(* Claims about the nearest hubs.                                          *)
(***************************************************************************)
Max2Of(x, y) == IF x > y THEN x ELSE y

\* The returned list is sorted by descending proximity.
NearestSorted ==
    \A i, j \in 1..Len(nearby.pins) :
        i < j => nearby.pins[i].proximity >= nearby.pins[j].proximity

\* The returned list has at most max(maxMatches, nearestPinsMinimum) entries.
NearestAtMostMax ==
    Len(nearby.pins) <= Max2Of(nearMaxMatches, nearestPinsMinimum)

\* Every hub is in the returned list at most once.
NearestHubsOnce ==
    \A i, j \in 1..Len(nearby.pins) :
        i # j => nearby.pins[i].pin # nearby.pins[j].pin

\* Every entry beyond the first nearestPinsMinimum is no more than
\* nearestPinsMaxProximityDifference below the best.
NearestWithinDifference ==
    \A i \in 1..Len(nearby.pins) :
        i > nearestPinsMinimum =>
            nearby.pins[i].proximity >=
                nearby.pins[1].proximity - nearestPinsMaxProximityDifference

\* C39: the list returned by findNearestPins / FindNearestHubs is sorted by
\* descending proximity, has at most max(maxMatches, nearestPinsMinimum)
\* entries, contains each hub at most once (also when both an IPv4 and an
\* IPv6 location are given), and every entry beyond the first
\* nearestPinsMinimum has a proximity no more than
\* nearestPinsMaxProximityDifference below the best entry.
C39_NearestSortedBoundedUnique ==
    nearReturned =>
        /\ NearestSorted
        /\ NearestAtMostMax
        /\ NearestHubsOnce
        /\ NearestWithinDifference

\* The same without the hubs being unique.
NearestSortedBounded ==
    nearReturned => (NearestSorted /\ NearestAtMostMax /\ NearestWithinDifference)

(***************************************************************************)
(* Specifications: one per subsystem.                                      *)
(***************************************************************************)
\* The state of a subsystem that a specification leaves alone.
DFQParked == DFQInit /\ countTo = [e \in Terminals |-> 0]
LatencyParked == LatencyInit
CraneParked == CraneInit /\ ~craneEncrypting
ExpandParked == ExpandInit /\ publicHub /\ framesAllowed = 0

\* No exploration: the default profile and the route of the home hub alone.
RoutingParked ==
    /\ rp = [MinHops |-> 3, MaxHops |-> 5, MaxExtraHops |-> 2, MaxExtraCost |-> 100]
    /\ route = [Path |-> <<"home">>, TotalCost |-> 0]
    /\ foundRoutes = <<>>
    /\ compliance = routeNonCompliant
    /\ routeAdded = FALSE

MapParked == MapInit
ImportParked == ImportInit /\ importPublicHub /\ hubDB = NoHub
GCParked == GCInit
StatusParked == StatusInit /\ loadAvg15 = LoadAvg(TRUE, 0)

TeardownParked == TeardownInit
GossipParked == GossipInit
RemoveParked == RemoveInit
CaptainParked == CaptainInit
HookParked == HookInit
UnitParked == UnitInit
NearParked ==
    /\ nearLocations = [h \in NearHubs |-> [v4 |-> -1, v6 |-> -1]]
    /\ nearMaxMatches = 0
    /\ nearTodo = NearHubs
    /\ nearby = Nearby(<<>>, 0)
    /\ nearReturned = FALSE

\* No search: no lanes and nothing to explore.
SearchParked ==
    /\ lanes = [pair \in LanePairs |-> 0]
    /\ agenda = <<>>
    /\ foundUnbounded = <<>>
    /\ skippedFrom = 0

InitDFQ == DFQInit /\ CraneParked /\ ExpandParked /\ LatencyParked /\ RoutingParked /\ MapParked /\ ImportParked /\ GCParked /\ StatusParked /\ SearchParked /\ TeardownParked /\ GossipParked /\ RemoveParked /\ CaptainParked /\ HookParked /\ UnitParked /\ NearParked
SpecDFQ == InitDFQ /\ [][DFQNext]_vars

\* The flow handlers, the counter workers and the forwarding of submitted
\* frames keep running and the max-wait timer of a space report fires: while
\* one of them can take a step, one of them does.
DFQFairness == WF_vars(DFQNext)

SpecDFQFair == SpecDFQ /\ DFQFairness

InitCrane == CraneInit /\ DFQParked /\ ExpandParked /\ LatencyParked /\ RoutingParked /\ MapParked /\ ImportParked /\ GCParked /\ StatusParked /\ SearchParked /\ TeardownParked /\ GossipParked /\ RemoveParked /\ CaptainParked /\ HookParked /\ UnitParked /\ NearParked
SpecCrane == InitCrane /\ [][CraneNext]_vars

InitExpand == ExpandInit /\ DFQParked /\ CraneParked /\ LatencyParked /\ RoutingParked /\ MapParked /\ ImportParked /\ GCParked /\ StatusParked /\ SearchParked /\ TeardownParked /\ GossipParked /\ RemoveParked /\ CaptainParked /\ HookParked /\ UnitParked /\ NearParked
SpecExpand == InitExpand /\ [][ExpandNext]_vars

\* The relay handler workers are scheduled: while a forward handler can
\* enter, or a forward or backward handler can return on the cancelled
\* context, one of them does.
ExpandFairness ==
    WF_vars(\E o \in Ops : ForwardStart(o) \/ ForwardDone(o) \/ BackwardDone(o))

SpecExpandFair == SpecExpand /\ ExpandFairness

InitLatency == LatencyInit /\ DFQParked /\ CraneParked /\ ExpandParked /\ RoutingParked /\ MapParked /\ ImportParked /\ GCParked /\ StatusParked /\ SearchParked /\ TeardownParked /\ GossipParked /\ RemoveParked /\ CaptainParked /\ HookParked /\ UnitParked /\ NearParked
SpecLatency == InitLatency /\ [][LatencyNext]_vars

InitRouting == RoutingInit /\ DFQParked /\ CraneParked /\ ExpandParked /\ LatencyParked /\ MapParked /\ ImportParked /\ GCParked /\ StatusParked /\ SearchParked /\ TeardownParked /\ GossipParked /\ RemoveParked /\ CaptainParked /\ HookParked /\ UnitParked /\ NearParked
SpecRouting == InitRouting /\ [][RoutingNext]_vars

InitMap == MapInit /\ DFQParked /\ CraneParked /\ ExpandParked /\ LatencyParked /\ RoutingParked /\ ImportParked /\ GCParked /\ StatusParked /\ SearchParked /\ TeardownParked /\ GossipParked /\ RemoveParked /\ CaptainParked /\ HookParked /\ UnitParked /\ NearParked
SpecMap == InitMap /\ [][MapNext]_vars

InitImport == ImportInit /\ DFQParked /\ CraneParked /\ ExpandParked /\ LatencyParked /\ RoutingParked /\ MapParked /\ GCParked /\ StatusParked /\ SearchParked /\ TeardownParked /\ GossipParked /\ RemoveParked /\ CaptainParked /\ HookParked /\ UnitParked /\ NearParked
SpecImport == InitImport /\ [][ImportNext]_vars

InitGC == GCInit /\ DFQParked /\ CraneParked /\ ExpandParked /\ LatencyParked /\ RoutingParked /\ MapParked /\ ImportParked /\ StatusParked /\ SearchParked /\ TeardownParked /\ GossipParked /\ RemoveParked /\ CaptainParked /\ HookParked /\ UnitParked /\ NearParked
SpecGC == InitGC /\ [][GCNext]_vars

InitStatus == StatusInit /\ DFQParked /\ CraneParked /\ ExpandParked /\ LatencyParked /\ RoutingParked /\ MapParked /\ ImportParked /\ GCParked /\ SearchParked /\ TeardownParked /\ GossipParked /\ RemoveParked /\ CaptainParked /\ HookParked /\ UnitParked /\ NearParked
SpecStatus == InitStatus /\ [][StatusNext]_vars

InitSearch == SearchInit /\ DFQParked /\ CraneParked /\ ExpandParked /\ LatencyParked /\ MapParked /\ ImportParked /\ GCParked /\ StatusParked /\ TeardownParked /\ GossipParked /\ RemoveParked /\ CaptainParked /\ HookParked /\ UnitParked /\ NearParked
SpecSearch == InitSearch /\ [][SearchNext]_vars

InitTeardown == TeardownInit /\ DFQParked /\ CraneParked /\ ExpandParked /\ LatencyParked /\ RoutingParked /\ MapParked /\ ImportParked /\ GCParked /\ StatusParked /\ SearchParked /\ GossipParked /\ RemoveParked /\ CaptainParked /\ HookParked /\ UnitParked /\ NearParked
SpecTeardown == InitTeardown /\ [][TeardownNext]_vars

\* Every caller is scheduled: a call in progress runs its next statement.
TeardownFairness == \A c \in Callers : WF_vars(TeardownStep /\ callStack'[c] # callStack[c])
SpecTeardownFair == SpecTeardown /\ TeardownFairness

\* The channels deliver a hub that is not in the database.
InitGossip == GossipInit /\ ImportInit /\ hubDB = NoHub /\ DFQParked /\ CraneParked /\ ExpandParked /\ LatencyParked /\ RoutingParked /\ MapParked /\ GCParked /\ StatusParked /\ SearchParked /\ TeardownParked /\ RemoveParked /\ CaptainParked /\ HookParked /\ UnitParked /\ NearParked
SpecGossip == InitGossip /\ [][GossipNext]_vars

InitRemove == RemoveInit /\ MapInit /\ DFQParked /\ CraneParked /\ ExpandParked /\ LatencyParked /\ RoutingParked /\ ImportParked /\ GCParked /\ StatusParked /\ SearchParked /\ TeardownParked /\ GossipParked /\ CaptainParked /\ HookParked /\ UnitParked /\ NearParked
SpecRemove == InitRemove /\ [][RemoveNext]_vars

InitCaptain == CaptainInit /\ DFQParked /\ CraneParked /\ ExpandParked /\ LatencyParked /\ RoutingParked /\ MapParked /\ ImportParked /\ GCParked /\ StatusParked /\ SearchParked /\ TeardownParked /\ GossipParked /\ RemoveParked /\ HookParked /\ UnitParked /\ NearParked
SpecCaptain == InitCaptain /\ [][CaptainNext]_vars

InitHook == HookInit /\ DFQParked /\ CraneParked /\ ExpandParked /\ LatencyParked /\ RoutingParked /\ MapParked /\ ImportParked /\ GCParked /\ StatusParked /\ SearchParked /\ TeardownParked /\ GossipParked /\ RemoveParked /\ CaptainParked /\ UnitParked /\ NearParked
SpecHook == InitHook /\ [][HookNext]_vars

InitUnit == UnitInit /\ DFQParked /\ CraneParked /\ ExpandParked /\ LatencyParked /\ RoutingParked /\ MapParked /\ ImportParked /\ GCParked /\ StatusParked /\ SearchParked /\ TeardownParked /\ GossipParked /\ RemoveParked /\ CaptainParked /\ HookParked /\ NearParked
SpecUnit == InitUnit /\ [][UnitNext]_vars

InitNear == NearInit /\ DFQParked /\ CraneParked /\ ExpandParked /\ LatencyParked /\ RoutingParked /\ MapParked /\ ImportParked /\ GCParked /\ StatusParked /\ SearchParked /\ TeardownParked /\ GossipParked /\ RemoveParked /\ CaptainParked /\ HookParked /\ UnitParked
SpecNear == InitNear /\ [][NearNext]_vars

====
